---- MODULE Spec2Model ----
(***************************************************************************)
(* State machine of the image_marker interaction engine.                   *)
(*                                                                         *)
(* Editor page (pages/Editor.tsx + components/ImageEditor.tsx): the marker *)
(* lists held in React state, the undo history, the link session, the      *)
(* drawing gesture of every image surface, the queue of persistence writes *)
(* that have been issued but not yet committed, and the live query that    *)
(* feeds committed rows back into React state.                             *)
(*                                                                         *)
(* Study page (pages/Player.tsx + components/ImagePlayer.tsx): the marker   *)
(* lists the live query delivered, the set of transparent markers of every *)
(* image, and the calls of handleMarkerTap that wait for their transaction *)
(* or for the code behind the await.                                       *)
(*                                                                         *)
(* Indices are 1-based here (TLA+ sequences); index i stands for the       *)
(* JavaScript index i-1.  An absent groupId (undefined) is NoGroup.        *)
(***************************************************************************)
EXTENDS Integers, Sequences, FiniteSets, TLC

VARIABLES
    images,      \* Editor `images` state / imagesRef.current: imageId -> Marker[]
    db,          \* persisted rows: imageId -> Marker[] (db.images)
    writes,      \* db.images.update calls issued and not yet committed (FIFO)
    stale,       \* a commit happened that the live query has not delivered yet
    history,     \* Editor `history` state: HistoryItem[]
    linkMode,    \* Editor `linkMode` state
    activeTool,  \* Editor `activeTool` state
    drawing,     \* per image surface: isDrawingRef / startPosRef / currentPosRef
    nextGid,     \* source of fresh group ids (crypto.randomUUID)
    budget,      \* number of history-pushing handler runs still explored
    lastEdit,    \* observation: the last handler run that pushed or popped history
    lastLink,    \* observation: anchor/target of the last successful link
    run,         \* observation: mutations and undos since the empty history
    applied,     \* observation: per image, the list the last handler run set in memory
    rejections,  \* the writes whose handler promise was rejected, oldest first
    confirmingDeleteImageId,  \* Editor `confirmingDeleteImageId` state, 0 for null
    deletes,     \* calls of executeDeleteImage suspended at their await (FIFO)
    playerImages,        \* Player `images` state: imageId -> Marker[] (markers prop)
    transparentMarkers,  \* ImagePlayer `transparentMarkers` state, per image
    pending,     \* calls of handleMarkerTap suspended at their await (FIFO)
    playerStale, \* a transaction committed that the live query has not delivered
    cycle,       \* observation: the consecutive settled taps on one marker or group
    currentNavIndex,  \* Player `currentNavIndex` state (0-based, -1: none yet)
    page,          \* the page that is mounted: "editor" or "player"
    transform,     \* `transform` state of the mounted page: scale, x, y
    lastTouchRef,  \* lastTouchRef.current of the mounted page
    lastDistRef,   \* lastDistRef.current of the mounted page
    hasInitialFit, \* hasInitialFit.current of the mounted page
    locationState, \* location.state.transform the page was opened with
    viewBudget,    \* number of transform-setting handler runs still explored
    lastPinch,     \* observation: the last two-contact update, while it is the last change
    stylusDown     \* observation: a stylus is among the contacts on the container

vars == <<images, db, writes, stale, history, linkMode, activeTool, drawing,
          nextGid, budget, lastEdit, lastLink, run, applied, rejections,
          confirmingDeleteImageId, deletes,
          playerImages, transparentMarkers, pending, playerStale, cycle,
          currentNavIndex,
          page, transform, lastTouchRef, lastDistRef, hasInitialFit,
          locationState, viewBudget, lastPinch, stylusDown>>

\* The state of the editor page other than the persisted rows.
editorVars == <<images, writes, stale, history, linkMode, activeTool, drawing,
                nextGid, budget, lastEdit, lastLink, run, applied,
                rejections, confirmingDeleteImageId, deletes>>

\* The image-deletion dialog of the editor page.
deleteVars == <<confirmingDeleteImageId, deletes>>

\* The state of the study page.
playerVars == <<playerImages, transparentMarkers, pending, playerStale, cycle,
                currentNavIndex>>

\* The view of the mounted page: zoom and pan.
viewVars == <<page, transform, lastTouchRef, lastDistRef, hasInitialFit,
              locationState, viewBudget, lastPinch, stylusDown>>

\* ------------------------------------------------------------------ bounds

\* History-pushing handler runs explored under Spec.
MaxEdits == 1
\* History-pushing handler runs explored under SpecLink.
LinkEdits == 2
\* History-pushing handler runs explored under SpecDeep.
DeepEdits == 15
\* Writes in flight before a further edit is explored.
MaxPending == 1
\* Suspended calls of handleMarkerTap before a further locking tap is explored.
MaxTaps == 2
\* History-pushing handler runs explored under SpecCross.
CrossEdits == 2
\* History-pushing handler runs explored under SpecFail.
FailEdits == 1
\* History-pushing handler runs explored under SpecDeck.
DeckEdits == 1
\* Calls of executeDeleteImage in flight at a time under SpecDelete.
MaxDeletes == 1
\* Transform-setting handler runs (pan, pinch, fit) explored under SpecView.
ViewSteps == 2

\* ------------------------------------------------------- program constants

\* The threshold of onPointerUp: width > 5 && height > 5.
MinSize == 5
\* const padding = 40 of handleFitScreen
Padding == 40
\* setHistory(prev => [...prev.slice(-9), item]): 9 older entries are kept.
HistoryKeep == 9

NoGroup == 0

NoPos == [x |-> -1, y |-> -1]

Pos(px, py) == [x |-> px, y |-> py]

\* db.ts: interface Marker. isLocked is "undefined", "true" or "false".
Marker(mx, my, w, h, g, l) ==
    [x |-> mx, y |-> my, width |-> w, height |-> h, groupId |-> g, isLocked |-> l]

PointerTypes == {"pen", "mouse", "touch"}

Tools == {"pen", "eraser"}

\* Content-space positions at which a contact can start on the svg.
StartPoints == {Pos(0, 0), Pos(14, 14)}
\* Content-space positions a tracked contact can move to.
MovePoints == {Pos(9, 9), Pos(5, 20)}

\* ----------------------------------------------------------------- helpers

RemoveAt(s, i) == SubSeq(s, 1, i - 1) \o SubSeq(s, i + 1, Len(s))

InsertAt(s, i, e) == SubSeq(s, 1, i - 1) \o <<e>> \o SubSeq(s, i, Len(s))

\* Array.prototype.filter with a predicate on the element.
RECURSIVE FilterOut(_, _)
FilterOut(s, g) ==
    IF s = <<>> THEN <<>>
    ELSE IF Head(s).groupId # g THEN <<Head(s)>> \o FilterOut(Tail(s), g)
    ELSE FilterOut(Tail(s), g)

\* Array.prototype.findIndex(m => m.groupId === g); 0 stands for -1.
FindIndex(s, g) ==
    IF \E i \in DOMAIN s : s[i].groupId = g
    THEN CHOOSE i \in DOMAIN s : s[i].groupId = g /\ \A j \in 1..(i - 1) : s[j].groupId # g
    ELSE 0

\* prev.slice(-9)
SliceLast(s, n) == IF Len(s) <= n THEN s ELSE SubSeq(s, Len(s) - n + 1, Len(s))

Abs(a) == IF a < 0 THEN -a ELSE a

Min(a, b) == IF a < b THEN a ELSE b

\* The browser's hit test: the contact lands on the <rect> of a marker.
Inside(p, m) ==
    /\ m.x <= p.x /\ p.x <= m.x + m.width
    /\ m.y <= p.y /\ p.y <= m.y + m.height

OnMarker(img, p) == \E i \in DOMAIN images[img] : Inside(p, images[img][i])

NoLink == [active |-> FALSE, parentMarkerIndex |-> 0, imageId |-> 0]

NoDraw == [isDrawing |-> FALSE, startPos |-> NoPos, currentPos |-> NoPos]

\* phase: "linked" after a successful link of the markers now at a (anchor) and
\* b (target), "erased" once the eraser hit a; "none" otherwise.
NoLast == [phase |-> "none", img |-> 0, a |-> 0, b |-> 0]

\* op: "add", "remove", "link", "unlink", "reject" or "undo"; before: the list of
\* image img as the handler found it (for "undo": the list it replaced). op
\* "foreign": handleLinkMarker was called for an image other than the session's.
Edit(op, img, before) == [op |-> op, img |-> img, before |-> before]

NoEdit == Edit("none", 0, <<>>)

\* ------------------------------------------------- Editor.tsx: the handlers

\* Variant: the entry holds the list the handler writes.
Snapshot_Written(markers, newMarkers) == newMarkers

\* { imageId, markers: [...image.markers] }: the entry holds the list the handler
\* read, not the list it is about to write.
Snapshot(markers, newMarkers) == markers

\* Variant: the history is never trimmed.
PushHistory_NoTrim(h, imageId, markers) ==
    Append(h, [imageId |-> imageId, markers |-> markers])

\* Variant: prev.slice(-8), one entry fewer is kept.
PushHistory_KeepEight(h, imageId, markers) ==
    Append(SliceLast(h, HistoryKeep - 1), [imageId |-> imageId, markers |-> markers])

\* setHistory(prev => [...prev.slice(-9), { imageId, markers: [...image.markers] }])
PushHistory(h, imageId, markers) ==
    Append(SliceLast(h, HistoryKeep), [imageId |-> imageId, markers |-> markers])

\* Variant: the handler keeps its optimistic list and issues no update.
IssueWrite_Dropped(w, imageId, newMarkers) == w

\* await saveMarkers(imageId, newMarkers): the update is issued, it commits later.
IssueWrite(w, imageId, newMarkers) ==
    Append(w, [imageId |-> imageId, markers |-> newMarkers])

\* Variant: the map replaces the markers of every image, the id is not compared.
SetMarkers_All(imgs, imageId, newMarkers) == [i \in DOMAIN imgs |-> newMarkers]

\* setImages(prev => prev.map(img => img.id === imageId ? {...img, markers} : img))
SetMarkers(imgs, imageId, newMarkers) == [imgs EXCEPT ![imageId] = newMarkers]

\* Variant: the eraser removes the marker it hit and no other.
RemovedMarkers_IndexOnly(markers, index) == RemoveAt(markers, index)

\* handleRemoveMarker, lines 85-91: the list that replaces image.markers.
RemovedMarkers(markers, index) ==
    IF markers[index].groupId # NoGroup
    THEN FilterOut(markers, markers[index].groupId)
    ELSE RemoveAt(markers, index)

\* Variant: every ungrouped marker of the list is taken into the anchor's group.
LinkedMarkers_Sweep(markers, parentIndex, targetIndex, fresh) ==
    LET groupId == IF markers[parentIndex].groupId = NoGroup
                   THEN fresh ELSE markers[parentIndex].groupId
    IN  [k \in DOMAIN markers |->
            IF markers[k].groupId = NoGroup
            THEN [markers[k] EXCEPT !.groupId = groupId]
            ELSE markers[k]]

\* Variant: the target is unlinked, the anchor keeps its id whoever is left.
LinkedMarkers_NoDissolve(markers, parentIndex, targetIndex, fresh) ==
    LET groupId == IF markers[parentIndex].groupId = NoGroup
                   THEN fresh ELSE markers[parentIndex].groupId
        withParent == [markers EXCEPT ![parentIndex].groupId = groupId]
    IN  IF markers[targetIndex].groupId = groupId
        THEN [withParent EXCEPT ![targetIndex].groupId = NoGroup]
        ELSE IF markers[targetIndex].groupId = NoGroup
        THEN [withParent EXCEPT ![targetIndex].groupId = groupId]
        ELSE withParent

\* Variant: the anchor receives its group id, the target is left as it was.
LinkedMarkers_AnchorOnly(markers, parentIndex, targetIndex, fresh) ==
    [markers EXCEPT ![parentIndex].groupId = IF @ = NoGroup THEN fresh ELSE @]

\* Variant: the target is linked and the anchor stays where it is.
LinkedMarkers_NoReorder(markers, parentIndex, targetIndex, fresh) ==
    LET groupId == IF markers[parentIndex].groupId = NoGroup
                   THEN fresh ELSE markers[parentIndex].groupId
        withParent == [markers EXCEPT ![parentIndex].groupId = groupId]
    IN  IF markers[targetIndex].groupId = NoGroup
        THEN [withParent EXCEPT ![targetIndex].groupId = groupId]
        ELSE withParent

\* Variant: the reordering branch re-inserts the target where the anchor should
\* go, so the anchor's record is lost and the target's stands twice.
LinkedMarkers_ReorderTarget(markers, parentIndex, targetIndex, fresh) ==
    LET groupId == IF markers[parentIndex].groupId = NoGroup
                   THEN fresh ELSE markers[parentIndex].groupId
        withParent == [markers EXCEPT ![parentIndex].groupId = groupId]
    IN  IF markers[targetIndex].groupId = NoGroup /\ parentIndex > targetIndex
        THEN LET linked == [withParent EXCEPT ![targetIndex].groupId = groupId]
             IN  InsertAt(RemoveAt(linked, parentIndex), targetIndex, linked[targetIndex])
        ELSE withParent

\* handleLinkMarker, lines 183-224: newMarkers as it is when setImages is called.
LinkedMarkers(markers, parentIndex, targetIndex, fresh) ==
    LET parentMarker == markers[parentIndex]
        targetMarker == markers[targetIndex]
        groupId == IF parentMarker.groupId = NoGroup THEN fresh ELSE parentMarker.groupId
        withParent == [markers EXCEPT ![parentIndex].groupId = groupId]
    IN  IF targetMarker.groupId = groupId
        THEN LET stripped == [withParent EXCEPT ![targetIndex].groupId = NoGroup]
                 othersInGroup == {i \in DOMAIN stripped :
                                      i # parentIndex /\ stripped[i].groupId = groupId}
             IN  IF othersInGroup = {}
                 THEN [stripped EXCEPT ![parentIndex].groupId = NoGroup]
                 ELSE stripped
        ELSE IF targetMarker.groupId = NoGroup
        THEN LET linked == [withParent EXCEPT ![targetIndex].groupId = groupId]
             IN  IF parentIndex > targetIndex
                 THEN InsertAt(RemoveAt(linked, parentIndex), targetIndex, linked[parentIndex])
                 ELSE linked
        ELSE withParent

\* Variant: the image of the session is not compared with the image of the call.
LinkOutcome_AnyImage(imageId, targetIndex) ==
    IF ~linkMode.active \/ linkMode.parentMarkerIndex \notin DOMAIN images[imageId]
    THEN "noop"
    ELSE IF linkMode.parentMarkerIndex = targetIndex THEN "close"
    ELSE LET markers == images[imageId]
             parentMarker == markers[linkMode.parentMarkerIndex]
             targetMarker == markers[targetIndex]
         IN  IF parentMarker.groupId # NoGroup /\ targetMarker.groupId = parentMarker.groupId
             THEN "unlink"
             ELSE IF targetMarker.groupId = NoGroup THEN "link"
             ELSE "reject"

\* Which branch of handleLinkMarker a call takes.
LinkOutcome(imageId, targetIndex) ==
    IF ~linkMode.active \/ linkMode.imageId # imageId THEN "noop"
    ELSE IF linkMode.parentMarkerIndex = targetIndex THEN "close"
    ELSE LET markers == images[imageId]
             parentMarker == markers[linkMode.parentMarkerIndex]
             targetMarker == markers[targetIndex]
         IN  IF parentMarker.groupId # NoGroup /\ targetMarker.groupId = parentMarker.groupId
             THEN "unlink"
             ELSE IF targetMarker.groupId = NoGroup THEN "link"
             ELSE "reject"

\* The handlers below push to the history and issue a write; the model explores
\* them while the edit budget and the write queue allow.
CanEdit == budget > 0 /\ Len(writes) < MaxPending

HandleAddMarker(imageId, marker) ==
    /\ CanEdit
    /\ LET newMarkers == Append(images[imageId], marker)
       IN  /\ history' = PushHistory(history, imageId,
                                      Snapshot(images[imageId], newMarkers))
           /\ images' = SetMarkers(images, imageId, newMarkers)
           /\ writes' = IssueWrite(writes, imageId, newMarkers)
    /\ budget' = budget - 1
    /\ UNCHANGED <<linkMode, nextGid>>

HandleRemoveMarker(imageId, index) ==
    /\ CanEdit
    /\ LET newMarkers == RemovedMarkers(images[imageId], index)
       IN  /\ history' = PushHistory(history, imageId,
                                      Snapshot(images[imageId], newMarkers))
           /\ images' = SetMarkers(images, imageId, newMarkers)
           /\ writes' = IssueWrite(writes, imageId, newMarkers)
    /\ budget' = budget - 1
    /\ UNCHANGED <<linkMode, nextGid>>

\* Variant: the entry is restored and stays on the stack.
PopHistory_Keep(h) == h

\* history.slice(0, -1)
PopHistory(h) == SubSeq(h, 1, Len(h) - 1)

HandleUndo ==
    IF Len(history) = 0
    THEN UNCHANGED <<images, writes, history, linkMode, nextGid, budget>>
    ELSE /\ Len(writes) < MaxPending
         /\ LET lastAction == history[Len(history)]
            IN  /\ history' = PopHistory(history)
                /\ images' = IF lastAction.imageId \in DOMAIN images
                             THEN SetMarkers(images, lastAction.imageId, lastAction.markers)
                             ELSE images
                /\ writes' = IssueWrite(writes, lastAction.imageId, lastAction.markers)
         /\ UNCHANGED <<linkMode, nextGid, budget>>

\* Variant: every marker can open a session.
CanEnterLinkMode_Any(markers, markerIndex) == TRUE

\* handleEnterLinkMode: a child of a group cannot open a session.
CanEnterLinkMode(markers, markerIndex) ==
    \/ markers[markerIndex].groupId = NoGroup
    \/ FindIndex(markers, markers[markerIndex].groupId) = markerIndex

HandleEnterLinkMode(imageId, markerIndex) ==
    /\ linkMode' = IF CanEnterLinkMode(images[imageId], markerIndex)
                   THEN [active |-> TRUE, parentMarkerIndex |-> markerIndex, imageId |-> imageId]
                   ELSE linkMode
    /\ UNCHANGED <<images, writes, history, nextGid, budget>>

\* Variant: the session is switched off, anchor and image stay in the state.
HandleExitLinkMode_ActiveOnly ==
    /\ linkMode' = [linkMode EXCEPT !.active = FALSE]
    /\ UNCHANGED <<images, writes, history, nextGid, budget>>

HandleExitLinkMode ==
    /\ linkMode' = NoLink
    /\ UNCHANGED <<images, writes, history, nextGid, budget>>

HandleLinkMarker(imageId, targetIndex) ==
    LET outcome == LinkOutcome(imageId, targetIndex)
        parentIndex == linkMode.parentMarkerIndex
    IN  IF outcome = "noop"
        THEN UNCHANGED <<images, writes, history, linkMode, nextGid, budget>>
        ELSE IF outcome = "close" THEN HandleExitLinkMode
        ELSE /\ CanEdit
             /\ LET markers == images[imageId]
                    needsId == markers[parentIndex].groupId = NoGroup
                    newMarkers == LinkedMarkers(markers, parentIndex, targetIndex, nextGid)
                IN  /\ history' = PushHistory(history, imageId,
                                               Snapshot(markers, newMarkers))
                    /\ images' = SetMarkers(images, imageId, newMarkers)
                    /\ writes' = IssueWrite(writes, imageId, newMarkers)
                    /\ nextGid' = IF needsId THEN nextGid + 1 ELSE nextGid
                    /\ linkMode' = IF outcome = "link" /\ parentIndex > targetIndex
                                   THEN [linkMode EXCEPT !.parentMarkerIndex = targetIndex]
                                   ELSE linkMode
             /\ budget' = budget - 1

\* ------------------------------------------------------------ observations

InvalidRun == [valid |-> FALSE, img |-> 0, muts |-> 0, undos |-> 0, snap |-> <<>>]

FreshRun == [valid |-> TRUE, img |-> 0, muts |-> 0, undos |-> 0, snap |-> <<>>]

\* The run after a handler pushed to the history for imageId; ok: the handler
\* performed an add, a remove, a link or an unlink. newList: the list it left.
RunAfterPush(imageId, ok, newList) ==
    IF ~run.valid \/ ~ok \/ run.undos > 0 \/ run.muts >= 15
       \/ (run.muts > 0 /\ run.img # imageId)
    THEN InvalidRun
    ELSE [valid |-> TRUE, img |-> imageId, muts |-> run.muts + 1, undos |-> 0,
          snap |-> IF run.muts + 1 = 5 THEN newList ELSE run.snap]

\* The run after a call of handleUndo. The calls are counted once 15 mutations
\* are on record, up to 10 of them; an undo that pops earlier ends the run.
RunAfterUndo ==
    IF run.valid /\ run.muts = 15 /\ run.undos < 10
    THEN [run EXCEPT !.undos = @ + 1]
    ELSE IF Len(history) > 0 \/ run.undos > 0 THEN InvalidRun
    ELSE run

\* applied after a step of the editor: a handler that pushed to or popped from
\* the history has set the list of its image.
AppliedAfter ==
    IF budget' = budget /\ history' = history
    THEN applied
    ELSE [applied EXCEPT ![lastEdit'.img] = images'[lastEdit'.img]]

\* The last link stays on record while the list it was made in is untouched.
KeepLastLink(newImages) ==
    IF lastLink.phase # "none" /\ newImages[lastLink.img] # images[lastLink.img]
    THEN NoLast
    ELSE lastLink

\* ------------------------------------------- ImageEditor.tsx: render, events

\* The render of ImageEditor dereferences markers[linkMode.parentMarkerIndex]
\* inside markers.map: with a session on an image whose list is not empty and
\* no marker at that index it throws, and React unmounts the page.
Crashed ==
    /\ linkMode.active
    /\ linkMode.imageId \in DOMAIN images
    /\ Len(images[linkMode.imageId]) > 0
    /\ linkMode.parentMarkerIndex \notin DOMAIN images[linkMode.imageId]

\* The session as the ImageEditor of image img receives it (linkMode prop).
LinkActiveFor(img) == linkMode.active /\ linkMode.imageId = img

\* onPointerDown of the svg, the contact not on a marker.
CanvasPointerDown(img, ptype, pos) ==
    /\ UNCHANGED <<playerVars, rejections, viewVars, deleteVars>>
    /\ UNCHANGED applied
    /\ ~Crashed
    /\ ~OnMarker(img, pos)
    /\ LET starts == ptype # "touch" /\ activeTool = "pen"
       IN  drawing' = IF starts
                         THEN [drawing EXCEPT ![img] =
                                  [isDrawing |-> TRUE, startPos |-> pos, currentPos |-> pos]]
                         ELSE drawing
    /\ UNCHANGED <<images, db, writes, stale, history, linkMode, activeTool,
                   nextGid, budget, lastEdit, lastLink, run>>

\* onPointerMove of the svg.
PointerMove(img, ptype, pos) ==
    /\ UNCHANGED <<playerVars, rejections, viewVars, deleteVars>>
    /\ UNCHANGED applied
    /\ ~Crashed
    /\ LET tracks == drawing[img].isDrawing /\ activeTool = "pen" /\ ptype # "touch"
       IN  drawing' = IF tracks
                         THEN [drawing EXCEPT ![img].currentPos = pos]
                         ELSE drawing
    /\ UNCHANGED <<images, db, writes, stale, history, linkMode, activeTool,
                   nextGid, budget, lastEdit, lastLink, run>>

\* The rectangle onPointerUp builds from startPosRef and currentPosRef.
DrawnRect(start, current) ==
    Marker(Min(start.x, current.x), Min(start.y, current.y),
           Abs(current.x - start.x), Abs(current.y - start.y), NoGroup, "undefined")

\* Variant: sides of exactly 5 commit as well.
Commits_AtLeast(img) ==
    LET r == DrawnRect(drawing[img].startPos, drawing[img].currentPos)
    IN  activeTool = "pen" /\ r.width >= MinSize /\ r.height >= MinSize

\* onPointerUp commits the rectangle: the tool is the pen and both sides exceed 5.
Commits(img) ==
    LET r == DrawnRect(drawing[img].startPos, drawing[img].currentPos)
    IN  activeTool = "pen" /\ r.width > MinSize /\ r.height > MinSize

\* onPointerUp / pointercancel of the svg.
PointerUp(img, ptype) ==
    /\ UNCHANGED <<playerVars, rejections, viewVars, deleteVars>>
    /\ ~Crashed
    /\ IF ~drawing[img].isDrawing
       THEN UNCHANGED <<images, writes, history, linkMode, nextGid, budget,
                       drawing, lastEdit, lastLink, run>>
       ELSE /\ drawing' = [drawing EXCEPT ![img] = NoDraw]
            /\ IF Commits(img)
               THEN LET r == DrawnRect(drawing[img].startPos, drawing[img].currentPos)
                    IN  /\ HandleAddMarker(img, r)
                        /\ lastEdit' = Edit("add", img, images[img])
                        /\ run' = RunAfterPush(img, TRUE, images'[img])
                        /\ lastLink' = NoLast
               ELSE UNCHANGED <<images, writes, history, linkMode, nextGid, budget,
                               lastEdit, lastLink, run>>
    /\ UNCHANGED <<db, stale, activeTool>>
    /\ applied' = AppliedAfter

\* handleMarkerPointerDown: the contact lands on the rect of marker index.
MarkerPointerDown(img, ptype, index) ==
    /\ UNCHANGED <<playerVars, rejections, viewVars, deleteVars>>
    /\ ~Crashed
    /\ index \in DOMAIN images[img]
    /\ IF activeTool = "eraser"
       THEN /\ HandleRemoveMarker(img, index)
            /\ lastEdit' = Edit("remove", img, images[img])
            /\ run' = RunAfterPush(img, TRUE, images'[img])
            /\ lastLink' = IF lastLink.phase = "linked" /\ lastLink.img = img
                              /\ lastLink.a = index
                           THEN [lastLink EXCEPT !.phase = "erased"]
                           ELSE NoLast
       ELSE IF LinkActiveFor(img)
       THEN LET outcome == LinkOutcome(img, index)
                pushes == outcome \in {"link", "unlink", "reject"}
            IN  /\ HandleLinkMarker(img, index)
                /\ lastEdit' = IF pushes THEN Edit(outcome, img, images[img]) ELSE lastEdit
                /\ run' = IF pushes
                          THEN RunAfterPush(img, outcome # "reject", images'[img])
                          ELSE run
                /\ lastLink' = IF outcome = "link"
                               THEN [phase |-> "linked", img |-> img,
                                     a |-> linkMode'.parentMarkerIndex,
                                     b |-> IF linkMode.parentMarkerIndex > index
                                           THEN index + 1 ELSE index]
                               ELSE IF pushes THEN NoLast
                               ELSE lastLink
       ELSE /\ HandleEnterLinkMode(img, index)
            /\ UNCHANGED <<lastEdit, lastLink, run>>
    /\ UNCHANGED <<db, stale, activeTool, drawing>>
    /\ applied' = AppliedAfter

\* handleLinkMarker called as toggleLink(imageId, targetIndex) for any image,
\* whatever image the session is on.
LinkMarkerCall(img, index) ==
    /\ UNCHANGED <<playerVars, rejections, viewVars, deleteVars>>
    /\ ~Crashed
    /\ index \in DOMAIN images[img]
    /\ LET outcome == LinkOutcome(img, index)
           pushes == outcome \in {"link", "unlink", "reject"}
       IN  /\ HandleLinkMarker(img, index)
           /\ lastEdit' = IF pushes THEN Edit(outcome, img, images[img])
                          ELSE IF linkMode.active /\ linkMode.imageId # img
                          THEN Edit("foreign", img, images[img])
                          ELSE lastEdit
           /\ run' = IF pushes
                     THEN RunAfterPush(img, outcome # "reject", images'[img])
                     ELSE run
           /\ lastLink' = IF outcome = "link"
                          THEN [phase |-> "linked", img |-> img,
                                a |-> linkMode'.parentMarkerIndex,
                                b |-> IF linkMode.parentMarkerIndex > index
                                      THEN index + 1 ELSE index]
                          ELSE IF pushes THEN NoLast
                          ELSE lastLink
    /\ UNCHANGED <<db, stale, activeTool, drawing>>
    /\ applied' = AppliedAfter

\* ------------------------------------------------------- Toolbar.tsx: events

\* onToolChange={setActiveTool}
ToolChange(tool) ==
    /\ UNCHANGED <<playerVars, rejections, viewVars, deleteVars>>
    /\ UNCHANGED applied
    /\ ~Crashed
    /\ activeTool' = tool
    /\ UNCHANGED <<images, db, writes, stale, history, linkMode, drawing,
                   nextGid, budget, lastEdit, lastLink, run>>

\* canUndo={history.length > 0}
CanUndo == Len(history) > 0

\* onUndo={handleUndo}
Undo ==
    /\ UNCHANGED <<playerVars, rejections, viewVars, deleteVars>>
    /\ ~Crashed
    /\ HandleUndo
    /\ lastEdit' = IF CanUndo
                   THEN Edit("undo", history[Len(history)].imageId,
                             images[history[Len(history)].imageId])
                   ELSE lastEdit
    /\ run' = RunAfterUndo
    /\ lastLink' = IF CanUndo THEN NoLast ELSE lastLink
    /\ UNCHANGED <<db, stale, activeTool, drawing>>
    /\ applied' = AppliedAfter

\* ------------------------------------------------- persistence, live query

\* The oldest db.images.update in flight commits.
Settle ==
    /\ UNCHANGED <<playerVars, rejections, viewVars, deleteVars>>
    /\ UNCHANGED applied
    /\ writes # <<>>
    /\ db' = [db EXCEPT ![Head(writes).imageId] = Head(writes).markers]
    /\ writes' = Tail(writes)
    /\ stale' = TRUE
    /\ UNCHANGED <<images, history, linkMode, activeTool, drawing, nextGid, budget,
                   lastEdit, lastLink, run>>

\* Variant: a rejected write takes the optimistic list and the snapshot back.
OnSaveRejected_Rollback(imgs, hist, write) ==
    [images  |-> IF hist # <<>> /\ hist[Len(hist)].imageId = write.imageId
                 THEN SetMarkers(imgs, write.imageId, hist[Len(hist)].markers)
                 ELSE imgs,
     history |-> PopHistory(hist)]

\* What a handler does when `await saveMarkers(...)` throws: the await is its
\* last statement and no try/catch surrounds it, so the list and the history
\* stay as the handler set them before the await.
OnSaveRejected(imgs, hist, write) == [images |-> imgs, history |-> hist]

\* The oldest db.images.update in flight rejects (quota, closed or broken
\* database): the row is not written, the live query is not notified, and the
\* async handler that awaited saveMarkers rejects its own promise.
SaveFails ==
    /\ UNCHANGED <<playerVars, viewVars, deleteVars>>
    /\ writes # <<>>
    /\ writes' = Tail(writes)
    /\ rejections' = Append(rejections, Head(writes))
    /\ images' = OnSaveRejected(images, history, Head(writes)).images
    /\ history' = OnSaveRejected(images, history, Head(writes)).history
    /\ UNCHANGED <<db, stale, linkMode, activeTool, drawing, nextGid, budget,
                   lastEdit, lastLink, run, applied>>

\* useLiveQuery delivers the committed rows: setImages(dbImages).
Refresh ==
    /\ UNCHANGED <<playerVars, rejections, viewVars, deleteVars>>
    /\ UNCHANGED applied
    /\ ~Crashed
    /\ stale
    /\ images' = db
    /\ stale' = FALSE
    /\ run' = IF images' # images THEN InvalidRun ELSE run
    /\ lastLink' = KeepLastLink(images')
    /\ UNCHANGED <<db, writes, history, linkMode, activeTool, drawing, nextGid, budget,
                   lastEdit>>

\* ------------------------------------------- Editor.tsx: image deletion

\* useState<number | null>(null): no image is up for deletion.
NoImageId == 0

\* handleDeleteImage: the confirmation dialog opens for imageId.
HandleDeleteImage(imageId) ==
    /\ confirmingDeleteImageId' = imageId
    /\ UNCHANGED deletes

\* executeDeleteImage up to its await: nothing without a dialog, nothing when
\* the page shows one image or none; otherwise db.images.delete is issued.
ExecuteDeleteImage ==
    IF confirmingDeleteImageId = NoImageId \/ Cardinality(DOMAIN images) <= 1
    THEN UNCHANGED <<confirmingDeleteImageId, deletes>>
    ELSE /\ deletes' = Append(deletes, [imageId |-> confirmingDeleteImageId,
                                        committed |-> FALSE])
         /\ UNCHANGED confirmingDeleteImageId

\* The "delete image" entry of the settings menu of image img.
DeleteClick(img) ==
    /\ img \in DOMAIN images
    /\ HandleDeleteImage(img)
    /\ UNCHANGED <<db, images, writes, stale, history, linkMode, activeTool, drawing,
                   nextGid, budget, lastEdit, lastLink, run, applied, rejections>>
    /\ UNCHANGED <<playerVars, viewVars>>

\* The cancel button of the dialog: setConfirmingDeleteImageId(null).
DeleteCancel ==
    /\ confirmingDeleteImageId # NoImageId
    /\ confirmingDeleteImageId' = NoImageId
    /\ UNCHANGED <<db, images, writes, stale, history, linkMode, activeTool, drawing,
                   nextGid, budget, lastEdit, lastLink, run, applied, rejections,
                   deletes>>
    /\ UNCHANGED <<playerVars, viewVars>>

\* The confirm button of the dialog: onClick={executeDeleteImage}.
DeleteConfirm ==
    /\ confirmingDeleteImageId # NoImageId
    /\ Len(deletes) < MaxDeletes
    /\ ExecuteDeleteImage
    /\ UNCHANGED <<db, images, writes, stale, history, linkMode, activeTool, drawing,
                   nextGid, budget, lastEdit, lastLink, run, applied, rejections>>
    /\ UNCHANGED <<playerVars, viewVars>>

\* The oldest db.images.delete in flight commits: the row is gone, the live
\* query has a delivery to make.
DeleteCommit ==
    /\ deletes # <<>>
    /\ ~Head(deletes).committed
    /\ db' = [i \in DOMAIN db \ {Head(deletes).imageId} |-> db[i]]
    /\ deletes' = [deletes EXCEPT ![1].committed = TRUE]
    /\ stale' = TRUE
    /\ UNCHANGED <<images, writes, history, linkMode, activeTool, drawing,
                   nextGid, budget, lastEdit, lastLink, run, applied, rejections,
                   confirmingDeleteImageId>>
    /\ UNCHANGED <<playerVars, viewVars>>

\* The code behind the await of executeDeleteImage: the dialog is closed.
DeleteResume ==
    /\ deletes # <<>>
    /\ Head(deletes).committed
    /\ deletes' = Tail(deletes)
    /\ confirmingDeleteImageId' = NoImageId
    /\ UNCHANGED <<db, images, writes, stale, history, linkMode, activeTool, drawing,
                   nextGid, budget, lastEdit, lastLink, run, applied, rejections>>
    /\ UNCHANGED <<playerVars, viewVars>>

\* ---------------------------------------- ImagePlayer.tsx: handleMarkerTap

\* Variant: only the tapped marker is collected.
GroupIndices_Self(markers, index) == {index}

\* groupIndices: the indices that share the groupId of the tapped marker, or the
\* tapped index alone when it has none.
GroupIndices(markers, index) ==
    IF markers[index].groupId # NoGroup
    THEN {i \in DOMAIN markers : markers[i].groupId = markers[index].groupId}
    ELSE {index}

\* The branch handleMarkerTap takes: marker.isLocked is truthy, or else whether
\* transparentMarkers has the tapped index.
TapBranch(marker, isTransparent) ==
    IF marker.isLocked = "true" THEN "unlock"
    ELSE IF isTransparent THEN "lock"
    ELSE "reveal"

\* newMarkers of the transaction: isLocked is set on the indices that exist.
WithLock(markers, groupIndices, value) ==
    [i \in DOMAIN markers |->
        IF i \in groupIndices THEN [markers[i] EXCEPT !.isLocked = value] ELSE markers[i]]

\* Variant: the transparency of the group is left in place.
ClearedSet_Kept(set, groupIndices) == set

\* newSet after groupIndices.forEach(i => newSet.delete(i))
ClearedSet(set, groupIndices) == set \ groupIndices

\* useState(-1): no marker has been navigated to.
NoNav == -1

NoCycle == [taps |-> 0, img |-> 0, members |-> {}, log |-> <<>>]

\* No call of handleMarkerTap is suspended and the markers prop is current.
Settled == pending = <<>> /\ ~playerStale

\* The cycle after a stylus tap on marker index of image img; effect is what the
\* tap asked the storage to write: "none", "true" or "false".
CycleAfterTap(img, index, effect) ==
    LET markers == playerImages[img]
        members == IF markers[index].groupId = NoGroup THEN {index}
                   ELSE {m \in DOMAIN markers : markers[m].groupId = markers[index].groupId}
        fresh == \A m \in members :
                    markers[m].isLocked # "true" /\ m \notin transparentMarkers[img]
    IN  IF Settled /\ cycle.taps \in {1, 2} /\ cycle.img = img /\ index \in cycle.members
        THEN [cycle EXCEPT !.taps = @ + 1, !.log = Append(@, effect)]
        ELSE IF Settled /\ fresh
        THEN [taps |-> 1, img |-> img, members |-> members, log |-> <<effect>>]
        ELSE NoCycle

\* onPointerUp of a marker rect, and handleMarkerTap up to its await.
MarkerTap(img, ptype, index) ==
    /\ index \in DOMAIN playerImages[img]
    /\ IF ptype # "pen"
       THEN UNCHANGED <<transparentMarkers, pending, cycle>>
       ELSE LET markers == playerImages[img]
                groupIndices == GroupIndices(markers, index)
                branch == TapBranch(markers[index], index \in transparentMarkers[img])
            IN  IF branch = "reveal"
                THEN /\ transparentMarkers' =
                            [transparentMarkers EXCEPT ![img] = @ \cup groupIndices]
                     /\ cycle' = CycleAfterTap(img, index, "none")
                     /\ UNCHANGED pending
                ELSE /\ Len(pending) < MaxTaps
                     /\ pending' = Append(pending,
                            [imageId |-> img, groupIndices |-> groupIndices,
                             lock |-> branch = "lock",
                             transparentMarkers |-> transparentMarkers[img],
                             committed |-> FALSE])
                     /\ cycle' = CycleAfterTap(img, index,
                                     IF branch = "lock" THEN "true" ELSE "false")
                     /\ UNCHANGED transparentMarkers
    /\ UNCHANGED <<db, playerImages, playerStale, currentNavIndex>>
    /\ UNCHANGED <<editorVars, viewVars>>

\* db.transaction('rw', db.images, ...) of the oldest suspended call runs: it
\* reads the row, sets isLocked on groupIndices and updates the row once.
TapCommit ==
    /\ pending # <<>>
    /\ ~Head(pending).committed
    /\ LET call == Head(pending)
       IN  /\ db' = IF call.imageId \in DOMAIN db
                    THEN [db EXCEPT ![call.imageId] =
                             WithLock(@, call.groupIndices,
                                      IF call.lock THEN "true" ELSE "false")]
                    ELSE db
           /\ pending' = [pending EXCEPT ![1].committed = TRUE]
    /\ playerStale' = TRUE
    /\ UNCHANGED <<playerImages, transparentMarkers, cycle, currentNavIndex>>
    /\ UNCHANGED <<editorVars, viewVars>>

\* The code behind the await: a locking call clears the group from the set it
\* captured when the tap arrived, and onMarkerUpdate is called.
TapResume ==
    /\ pending # <<>>
    /\ Head(pending).committed
    /\ LET call == Head(pending)
       IN  transparentMarkers' =
               IF call.lock
               THEN [transparentMarkers EXCEPT ![call.imageId] =
                        ClearedSet(call.transparentMarkers, call.groupIndices)]
               ELSE transparentMarkers
    /\ pending' = Tail(pending)
    /\ UNCHANGED <<db, playerImages, playerStale, cycle, currentNavIndex>>
    /\ UNCHANGED <<editorVars, viewVars>>

\* useLiveQuery of the study page delivers the committed rows: setImages(dbImages).
PlayerRefresh ==
    /\ playerStale
    /\ playerImages' = db
    /\ playerStale' = FALSE
    /\ UNCHANGED <<db, transparentMarkers, pending, cycle, currentNavIndex>>
    /\ UNCHANGED <<editorVars, viewVars>>

\* ------------------------------------------------ numbers of the transform

\* scale, x and y are JavaScript numbers; they are modelled as exact fractions
\* n/d in lowest terms with d > 0, so that the rounding of the floating-point
\* operations is left out.
RECURSIVE GCD(_, _)
GCD(a, b) == IF b = 0 THEN a ELSE GCD(b, a % b)

Rat(n, d) ==
    LET g == GCD(Abs(n), Abs(d))
        s == IF d < 0 THEN -1 ELSE 1
    IN  [n |-> (s * n) \div g, d |-> (s * d) \div g]

RInt(k) == [n |-> k, d |-> 1]

RAdd(a, b) == Rat(a.n * b.d + b.n * a.d, a.d * b.d)

RSub(a, b) == Rat(a.n * b.d - b.n * a.d, a.d * b.d)

RMul(a, b) == Rat(a.n * b.n, a.d * b.d)

RDiv(a, b) == Rat(a.n * b.d, a.d * b.n)

RLess(a, b) == a.n * b.d < b.n * a.d

\* Math.min / Math.max
RMin(a, b) == IF RLess(b, a) THEN b ELSE a

RMax(a, b) == IF RLess(a, b) THEN b ELSE a

\* Math.hypot of two integer differences; the contacts of the model are
\* placed so that the distance is a whole number.
Hypot(dx, dy) ==
    IF dy = 0 THEN Abs(dx)
    ELSE IF dx = 0 THEN Abs(dy)
    ELSE CHOOSE r \in 0..(Abs(dx) + Abs(dy)) : r * r = dx * dx + dy * dy

\* ------------------------------------- Editor.tsx / Player.tsx: zoom and pan

\* The literals of Math.min(Math.max(prev.scale * scaleFactor, 0.1), 5).
MinScale == Rat(1, 10)

MaxScale == Rat(5, 1)

Pages == {"editor", "player"}

\* useState({ scale: 0.5, x: 0, y: 0 }) of the editor, useState({ scale: 1, ... })
\* of the player.
InitialTransform(p) ==
    [scale |-> IF p = "editor" THEN Rat(1, 2) ELSE RInt(1), x |-> RInt(0), y |-> RInt(0)]

\* setTransform({ scale: 0.5, x: 0, y: 0 }) of handleFitScreen without an img.
FallbackTransform == [scale |-> Rat(1, 2), x |-> RInt(0), y |-> RInt(0)]

\* lastDistRef.current = null
NoDist == -1

\* location.state without a transform
NoState == [scale |-> RInt(0), x |-> RInt(0), y |-> RInt(0)]

NoPinch == [on |-> FALSE, clamped |-> FALSE, cx |-> RInt(0), cy |-> RInt(0),
            prev |-> NoState]

\* Math.min(Math.max(s, 0.1), 5)
Clamp(s) == RMin(RMax(s, MinScale), MaxScale)

\* Variant: the translation follows the raw factor of the fingers.
PinchFactor_Raw(newScale, prevScale, scaleFactor) == scaleFactor

\* actualScaleFactor = newScale / prev.scale
PinchFactor(newScale, prevScale, scaleFactor) == RDiv(newScale, prevScale)

\* The updater of setTransform in the two-contact branch of handleTouchMove.
PinchTransform(prev, touch1, touch2, currentLastDist) ==
    LET dist == Hypot(touch1.x - touch2.x, touch1.y - touch2.y)
        scaleFactor == Rat(dist, currentLastDist)
        newScale == Clamp(RMul(prev.scale, scaleFactor))
        cx == Rat(touch1.x + touch2.x, 2)
        cy == Rat(touch1.y + touch2.y, 2)
        actualScaleFactor == PinchFactor(newScale, prev.scale, scaleFactor)
    IN  [scale |-> newScale,
         x |-> RSub(cx, RMul(RSub(cx, prev.x), actualScaleFactor)),
         y |-> RSub(cy, RMul(RSub(cy, prev.y), actualScaleFactor))]

\* The updater of setTransform in the one-contact branch of handleTouchMove.
PanTransform(prev, touch, last) ==
    [prev EXCEPT !.x = RAdd(@, RInt(touch.x - last.x)),
                 !.y = RAdd(@, RInt(touch.y - last.y))]

\* The transform handleFitScreen sets for the img closest to the centre of the
\* viewport. current is the transform the DOM shows (getBoundingClientRect),
\* closure the `transform` of the render the function was created in; offset is
\* the place of the img in the unscaled container.
FitTransform(current, closure, innerWidth, naturalWidth, offset) ==
    LET availableWidth == innerWidth - Padding
        fitScale == Rat(availableWidth, naturalWidth)
        rectLeft == RAdd(current.x, RMul(RInt(offset.x), current.scale))
        rectTop == RAdd(current.y, RMul(RInt(offset.y), current.scale))
        offsetInContainerX == RDiv(RSub(rectLeft, closure.x), closure.scale)
        offsetInContainerY == RDiv(RSub(rectTop, closure.y), closure.scale)
        newWidth == RMul(RInt(naturalWidth), fitScale)
        targetLeft == RDiv(RSub(RInt(innerWidth), newWidth), RInt(2))
    IN  [scale |-> fitScale,
         x |-> RSub(targetLeft, RMul(offsetInContainerX, fitScale)),
         y |-> RSub(RInt(0), RMul(offsetInContainerY, fitScale))]

\* querySelectorAll('img') finds nothing.
NoImg == [naturalWidth |-> -1, offset |-> NoPos]

\* handleFitScreen: img is the element closest to the centre, or NoImg when
\* the container holds no img.
HandleFitScreen(current, closure, innerWidth, img) ==
    IF img = NoImg THEN FallbackTransform
    ELSE IF img.naturalWidth > 0
    THEN FitTransform(current, closure, innerWidth, img.naturalWidth, img.offset)
    ELSE current

\* The contacts of the fingers (clientX, clientY).
Fingers == {Pos(100, 100), Pos(400, 100)}

\* Two fingers on the container.
Pinches == {<<Pos(100, 100), Pos(125, 100)>>, <<Pos(400, 100), Pos(100, 500)>>}

TouchLists == {<<f>> : f \in Fingers} \cup Pinches

\* The contacts of a touch event with their touch.touchType: the fingers, and
\* the stylus on the container.
Contacts == {[touchType |-> "direct", touches |-> ts] : ts \in TouchLists}
            \cup {[touchType |-> "stylus", touches |-> <<Pos(100, 100)>>]}

\* The contacts of the fingers alone.
FingerContacts == {c \in Contacts : c.touchType = "direct"}

\* The contacts while the stylus is on the container: the stylus alone, and
\* the stylus with a finger beside it.
StylusContacts == {[touchType |-> "stylus", touches |-> <<Pos(100, 100)>>],
                   [touchType |-> "stylus", touches |-> <<Pos(400, 100), Pos(100, 500)>>]}

\* Variant: the touch handlers do not look at touch.touchType.
HasStylus_Never(touchType) == FALSE

\* for (...) if (touch.touchType === 'stylus' || touch.touchType === 'pen') return;
\* touchType is "stylus" when any of the touches of the event is one.
HasStylus(touchType) == touchType = "stylus"

\* Variant: handleTouchEnd leaves the baseline of the gesture in place.
EndBaseline_Keep(touches, lastTouch, lastDist) ==
    [lastTouch |-> lastTouch, lastDist |-> lastDist]

\* handleTouchEnd: the baseline for the contacts that stay on the container.
EndBaseline(touches, lastTouch, lastDist) ==
    IF Len(touches) = 0 THEN [lastTouch |-> NoPos, lastDist |-> NoDist]
    ELSE IF Len(touches) = 1 THEN [lastTouch |-> touches[1], lastDist |-> NoDist]
    ELSE [lastTouch |-> lastTouch, lastDist |-> NoDist]

\* window.innerWidth
InnerWidths == {440, 1040}

\* The img elements fit-to-screen may find closest to the centre: not loaded
\* yet, an icon, a photograph further down the page.
Imgs == {[naturalWidth |-> 0, offset |-> Pos(0, 0)],
         [naturalWidth |-> 100, offset |-> Pos(0, 0)],
         [naturalWidth |-> 5000, offset |-> Pos(0, 900)]}

\* What a run of handleFitScreen meets: a window width and the closest img.
Fits == {[innerWidth |-> w, img |-> i] :
            w \in InnerWidths, i \in {i \in Imgs : i.naturalWidth > 0}}
        \cup {[innerWidth |-> 440, img |-> i] :
                 i \in {i \in Imgs : i.naturalWidth = 0} \cup {NoImg}}

\* The state of a freshly mounted Editor once the live query has delivered
\* the rows; writes issued before stay in flight. The page that is not shown
\* is unmounted and is given the state it will have when it is mounted.
EditorMounted ==
    /\ images' = db
    /\ stale' = FALSE
    /\ history' = <<>>
    /\ linkMode' = NoLink
    /\ activeTool' = "pen"
    /\ drawing' = [i \in DOMAIN db |-> NoDraw]
    /\ lastEdit' = NoEdit
    /\ lastLink' = NoLast
    /\ run' = FreshRun
    /\ applied' = db
    /\ confirmingDeleteImageId' = NoImageId
    /\ UNCHANGED <<writes, nextGid, budget, rejections, deletes>>

\* The state of a freshly mounted Player and its ImagePlayers once the live
\* query has delivered the rows.
PlayerMounted ==
    /\ playerImages' = db
    /\ transparentMarkers' = [i \in DOMAIN db |-> {}]
    /\ playerStale' = FALSE
    /\ cycle' = NoCycle
    /\ currentNavIndex' = NoNav
    /\ UNCHANGED pending

\* The page p is mounted with location.state.transform = state; the other
\* page is unmounted.
Mounted(p, state) ==
    /\ EditorMounted
    /\ PlayerMounted
    /\ page' = p
    /\ transform' = InitialTransform(p)
    /\ lastTouchRef' = NoPos
    /\ lastDistRef' = NoDist
    /\ hasInitialFit' = FALSE
    /\ locationState' = state
    /\ lastPinch' = NoPinch
    /\ stylusDown' = FALSE

\* handleTouchStart. TouchEvent.touches lists every contact on the surface, so
\* while the stylus is down every touch event carries it.
TouchStart(touchType, touches) ==
    /\ stylusDown => touchType = "stylus"
    /\ stylusDown' = (touchType = "stylus")
    /\ IF HasStylus(touchType)
       THEN UNCHANGED <<lastTouchRef, lastDistRef>>
       ELSE IF Len(touches) = 1
       THEN /\ lastTouchRef' = touches[1]
            /\ UNCHANGED lastDistRef
       ELSE /\ lastDistRef' = Hypot(touches[1].x - touches[2].x,
                                    touches[1].y - touches[2].y)
            /\ UNCHANGED lastTouchRef
    /\ UNCHANGED <<page, transform, hasInitialFit, locationState, viewBudget, lastPinch>>
    /\ UNCHANGED <<db, editorVars, playerVars>>

\* handleTouchMove
TouchMove(touchType, touches) ==
    /\ viewBudget > 0
    /\ stylusDown <=> touchType = "stylus"
    /\ UNCHANGED stylusDown
    /\ IF HasStylus(touchType)
       THEN UNCHANGED <<transform, lastTouchRef, lastDistRef, viewBudget, lastPinch>>
       ELSE IF Len(touches) = 1 /\ lastTouchRef # NoPos
       THEN /\ transform' = PanTransform(transform, touches[1], lastTouchRef)
            /\ lastTouchRef' = touches[1]
            /\ viewBudget' = viewBudget - 1
            /\ lastPinch' = NoPinch
            /\ UNCHANGED lastDistRef
       ELSE IF Len(touches) = 2 /\ lastDistRef # NoDist /\ lastDistRef # 0
       THEN /\ transform' = PinchTransform(transform, touches[1], touches[2], lastDistRef)
            /\ lastDistRef' = Hypot(touches[1].x - touches[2].x,
                                    touches[1].y - touches[2].y)
            /\ viewBudget' = viewBudget - 1
            /\ lastPinch' =
                  [on |-> TRUE,
                   clamped |-> RMul(transform.scale, Rat(lastDistRef', lastDistRef))
                                  # transform'.scale,
                   cx |-> Rat(touches[1].x + touches[2].x, 2),
                   cy |-> Rat(touches[1].y + touches[2].y, 2),
                   prev |-> transform]
            /\ UNCHANGED lastTouchRef
       ELSE UNCHANGED <<transform, lastTouchRef, lastDistRef, viewBudget, lastPinch>>
    /\ UNCHANGED <<page, hasInitialFit, locationState>>
    /\ UNCHANGED <<db, editorVars, playerVars>>

\* handleTouchEnd: touches are the contacts that stay on the container,
\* touchType tells whether the stylus is one of them.
TouchEnd(touchType, touches) ==
    /\ touchType = "stylus" => (stylusDown /\ Len(touches) > 0)
    /\ stylusDown' = (touchType = "stylus")
    /\ lastTouchRef' = EndBaseline(touches, lastTouchRef, lastDistRef).lastTouch
    /\ lastDistRef' = EndBaseline(touches, lastTouchRef, lastDistRef).lastDist
    /\ UNCHANGED <<page, transform, hasInitialFit, locationState, viewBudget, lastPinch>>
    /\ UNCHANGED <<db, editorVars, playerVars>>

\* onFitScreen={handleFitScreen} of the toolbar, onClick={handleFitScreen} of
\* the player.
FitScreen(innerWidth, img) ==
    /\ viewBudget > 0
    /\ transform' = HandleFitScreen(transform, transform, innerWidth, img)
    /\ viewBudget' = viewBudget - 1
    /\ lastPinch' = NoPinch
    /\ UNCHANGED <<page, lastTouchRef, lastDistRef, hasInitialFit, locationState,
                   stylusDown>>
    /\ UNCHANGED <<db, editorVars, playerVars>>

\* The "Initial Fit" effect. The editor takes the transform the player handed
\* over; otherwise the timer calls the handleFitScreen of the render that
\* scheduled it, the first one with images.
InitialFit(innerWidth, img) ==
    /\ ~hasInitialFit
    /\ (IF page = "editor" THEN DOMAIN images ELSE DOMAIN playerImages) # {}
    /\ transform' = IF page = "editor" /\ locationState # NoState
                    THEN locationState
                    ELSE HandleFitScreen(transform, InitialTransform(page), innerWidth, img)
    /\ hasInitialFit' = TRUE
    /\ lastPinch' = NoPinch
    /\ UNCHANGED <<page, lastTouchRef, lastDistRef, locationState, viewBudget,
                   stylusDown>>
    /\ UNCHANGED <<db, editorVars, playerVars>>

\* navigate(`/deck/${deckId}/edit`, { state: { transform } }) of the player.
EditFromPlayer ==
    /\ page = "player"
    /\ Mounted("editor", transform)
    /\ UNCHANGED <<viewBudget, db>>

\* navigate('/') and the page p opened from the deck list.
OpenPage(p) ==
    /\ Mounted(p, NoState)
    /\ UNCHANGED <<viewBudget, db>>

\* ------------------------------------------- Player.tsx: marker navigation

\* isNavigable of getAllNavigableMarkers: not a child of a group, not locked,
\* not transparent.
IsNavigable(markers, transparent, mIdx) ==
    /\ markers[mIdx].groupId # NoGroup => FindIndex(markers, markers[mIdx].groupId) = mIdx
    /\ markers[mIdx].isLocked # "true"
    /\ mIdx \notin transparent

\* Four times distA: the squared distance of the marker's centre from (0, 0).
CentreDistance(m) ==
    (2 * m.x + m.width) * (2 * m.x + m.width) + (2 * m.y + m.height) * (2 * m.y + m.height)

\* imgMarkers.sort(...): ascending distance; the sort is stable, so markers at
\* the same distance keep their list order.
RECURSIVE SortByDistance(_, _)
SortByDistance(markers, indices) ==
    IF indices = {} THEN <<>>
    ELSE LET first == CHOOSE k \in indices : \A j \in indices :
                         \/ CentreDistance(markers[k]) < CentreDistance(markers[j])
                         \/ /\ CentreDistance(markers[k]) = CentreDistance(markers[j])
                            /\ k <= j
         IN  <<[imageIndex |-> 0, markerIndex |-> first]>>
                 \o SortByDistance(markers, indices \ {first})

\* navMarkers of the images 1..n, image by image.
RECURSIVE NavigableUpTo(_)
NavigableUpTo(n) ==
    IF n = 0 THEN <<>>
    ELSE LET markers == playerImages[n]
             sorted == SortByDistance(markers,
                           {k \in DOMAIN markers :
                               IsNavigable(markers, transparentMarkers[n], k)})
         IN  NavigableUpTo(n - 1)
                 \o [k \in DOMAIN sorted |-> [sorted[k] EXCEPT !.imageIndex = n]]

\* getAllNavigableMarkers()
GetAllNavigableMarkers == NavigableUpTo(Cardinality(DOMAIN playerImages))

\* window.innerWidth and window.innerHeight of the study page.
Viewport == [innerWidth |-> 440, innerHeight |-> 800]

\* scrollToMarker: the pan that brings the centre of the marker to the centre
\* of the viewport; the scale is kept. The marker's element is shown at
\* transform.x + scale * centre, the offset of the image inside the content
\* being taken as zero.
ScrollToMarker(t, target) ==
    LET m == playerImages[target.imageIndex][target.markerIndex]
    IN  [t EXCEPT !.x = RSub(Rat(Viewport.innerWidth, 2),
                             RMul(t.scale, Rat(2 * m.x + m.width, 2))),
                  !.y = RSub(Rat(Viewport.innerHeight, 2),
                             RMul(t.scale, Rat(2 * m.y + m.height, 2)))]

\* The index handleNextMarker passes to setCurrentNavIndex, NoNav if it sets
\* none; list indices are the code's, counted from 0.
NextTarget(navMarkers, current) ==
    LET next == current + 1
        nextIndex == IF next >= Len(navMarkers) THEN 0 ELSE next
    IN  IF Len(navMarkers) = 0 THEN NoNav
        ELSE IF nextIndex < Len(navMarkers) THEN nextIndex
        ELSE NoNav

\* The index handlePrevMarker passes to setCurrentNavIndex, NoNav if it sets none.
PrevTarget(navMarkers, current) ==
    LET prev == current - 1
        prevIndex == IF prev < 0 THEN 0 ELSE prev
    IN  IF Len(navMarkers) = 0 THEN NoNav
        ELSE IF prevIndex >= 0 /\ prevIndex < Len(navMarkers) THEN prevIndex
        ELSE NoNav

\* setCurrentNavIndex(index); scrollToMarker(target.markerIndex, target.imageIndex)
GoToMarker(navMarkers, index) ==
    IF index = NoNav
    THEN UNCHANGED <<currentNavIndex, transform>>
    ELSE /\ currentNavIndex' = index
         /\ transform' = ScrollToMarker(transform, navMarkers[index + 1])

\* handleNextMarker
HandleNextMarker ==
    GoToMarker(GetAllNavigableMarkers,
               NextTarget(GetAllNavigableMarkers, currentNavIndex))

\* handlePrevMarker
HandlePrevMarker ==
    GoToMarker(GetAllNavigableMarkers,
               PrevTarget(GetAllNavigableMarkers, currentNavIndex))

\* onClick={handleNextMarker}
NextMarker ==
    /\ page = "player"
    /\ HandleNextMarker
    /\ lastPinch' = NoPinch
    /\ UNCHANGED <<playerImages, transparentMarkers, pending, playerStale, cycle>>
    /\ UNCHANGED <<page, lastTouchRef, lastDistRef, hasInitialFit, locationState,
                   viewBudget, stylusDown>>
    /\ UNCHANGED <<db, editorVars>>

\* onClick={handlePrevMarker}
PrevMarker ==
    /\ page = "player"
    /\ HandlePrevMarker
    /\ lastPinch' = NoPinch
    /\ UNCHANGED <<playerImages, transparentMarkers, pending, playerStale, cycle>>
    /\ UNCHANGED <<page, lastTouchRef, lastDistRef, hasInitialFit, locationState,
                   viewBudget, stylusDown>>
    /\ UNCHANGED <<db, editorVars>>

\* ---------------------------------------------------------- specifications

\* The k-th marker of a list stored by an earlier session: stored markers lie
\* side by side, clear of the positions at which contacts start.
StoredMarker(k, g) == Marker(10 + 20 * k, 30, 9, 9, g, "undefined")

\* Group patterns of the stored lists the editor is opened on: no marker, one
\* or two ungrouped markers, one group of two, an ungrouped marker before a group.
StoredPatterns == {<<>>, <<NoGroup>>, <<NoGroup, NoGroup>>, <<1, 1>>, <<NoGroup, 1, 1>>}

StoredLists == {[k \in DOMAIN gs |-> StoredMarker(k, gs[k])] : gs \in StoredPatterns}

\* The stored lists of the linking sessions: those above and three ungrouped markers.
LinkPatterns == StoredPatterns \cup {<<NoGroup, NoGroup, NoGroup>>}

LinkLists == {[k \in DOMAIN gs |-> StoredMarker(k, gs[k])] : gs \in LinkPatterns}

InitWith(decks, edits, p, steps) ==
    /\ db \in decks
    /\ images = db
    /\ writes = <<>>
    /\ stale = FALSE
    /\ history = <<>>
    /\ linkMode = NoLink
    /\ activeTool = "pen"
    /\ drawing = [i \in DOMAIN db |-> NoDraw]
    /\ nextGid = 2
    /\ budget = edits
    /\ lastEdit = NoEdit
    /\ lastLink = NoLast
    /\ run = FreshRun
    /\ applied = db
    /\ rejections = <<>>
    /\ confirmingDeleteImageId = NoImageId
    /\ deletes = <<>>
    /\ playerImages = db
    /\ transparentMarkers = [i \in DOMAIN db |-> {}]
    /\ pending = <<>>
    /\ playerStale = FALSE
    /\ cycle = NoCycle
    /\ currentNavIndex = NoNav
    /\ page = p
    /\ transform = InitialTransform(p)
    /\ lastTouchRef = NoPos
    /\ lastDistRef = NoDist
    /\ hasInitialFit = FALSE
    /\ locationState = NoState
    /\ viewBudget = steps
    /\ lastPinch = NoPinch
    /\ stylusDown = FALSE

\* A deck of one image as the live query first delivers it.
Init == InitWith([{1} -> StoredLists], MaxEdits, "editor", 0)

Next ==
    \/ \E img \in DOMAIN images, t \in PointerTypes, p \in StartPoints :
          CanvasPointerDown(img, t, p)
    \/ \E img \in DOMAIN images, t \in PointerTypes, p \in MovePoints :
          PointerMove(img, t, p)
    \/ \E img \in DOMAIN images, t \in PointerTypes : PointerUp(img, t)
    \/ \E img \in DOMAIN images, t \in PointerTypes :
          \E i \in DOMAIN images[img] : MarkerPointerDown(img, t, i)
    \/ \E tool \in Tools : ToolChange(tool)
    \/ Undo
    \/ Settle
    \/ Refresh

\* The editor under every event, one history-pushing handler run deep.
Spec == Init /\ [][Next]_vars

\* The editor under every event of the stylus, with writes that may fail.
FailPatterns == {<<>>, <<1, 1>>}

FailLists == {[k \in DOMAIN gs |-> StoredMarker(k, gs[k])] : gs \in FailPatterns}

InitFail == InitWith([{1} -> FailLists], FailEdits, "editor", 0)

NextFail ==
    \/ \E img \in DOMAIN images : CanvasPointerDown(img, "pen", Pos(0, 0))
    \/ \E img \in DOMAIN images : PointerMove(img, "pen", Pos(9, 9))
    \/ \E img \in DOMAIN images : PointerUp(img, "pen")
    \/ \E img \in DOMAIN images :
          \E i \in DOMAIN images[img] : MarkerPointerDown(img, "pen", i)
    \/ \E tool \in Tools : ToolChange(tool)
    \/ Undo
    \/ Settle
    \/ SaveFails
    \/ Refresh

SpecFail == InitFail /\ [][NextFail]_vars

\* Zoom and pan with the fingers on either page of a deck of one image, the
\* fit-to-screen button, and the ways from one page to the other.
InitView == \E p \in Pages : InitWith({[i \in {1} |-> <<>>]}, 0, p, ViewSteps)

NextView ==
    \/ \E c \in FingerContacts : TouchStart(c.touchType, c.touches)
    \/ \E c \in FingerContacts : TouchMove(c.touchType, c.touches)
    \/ \E touches \in {<<>>} \cup TouchLists : TouchEnd("direct", touches)
    \/ \E f \in Fits : FitScreen(f.innerWidth, f.img)
    \/ \E f \in Fits : InitialFit(f.innerWidth, f.img)
    \/ EditFromPlayer
    \/ \E p \in Pages : OpenPage(p)

SpecView == InitView /\ [][NextView]_vars

\* Fingers and the stylus on the container of either page: the touch handlers
\* under every mix of contacts, without the buttons.
NextStylus ==
    \/ \E c \in Contacts \cup StylusContacts : TouchStart(c.touchType, c.touches)
    \/ \E c \in Contacts \cup StylusContacts : TouchMove(c.touchType, c.touches)
    \/ \E touches \in {<<>>} \cup TouchLists : TouchEnd("direct", touches)
    \/ \E c \in StylusContacts : TouchEnd(c.touchType, c.touches)

SpecStylus == InitView /\ [][NextStylus]_vars

\* Linking and erasing with the stylus on the markers of a stored list, no
\* contact on the empty canvas; two history-pushing handler runs deep.
InitLink == InitWith([{1} -> LinkLists], LinkEdits, "editor", 0)

NextLink ==
    \/ \E img \in DOMAIN images :
          \E i \in DOMAIN images[img] : MarkerPointerDown(img, "pen", i)
    \/ \E tool \in Tools : ToolChange(tool)
    \/ Undo
    \/ Settle
    \/ Refresh

SpecLink == InitLink /\ [][NextLink]_vars

\* A deck of two images: the first stored with two ungrouped markers or with an
\* ungrouped marker before a group, the second with two ungrouped markers.
CrossDecks ==
    {[i \in {1, 2} |-> IF i = 1 THEN [k \in DOMAIN a |-> StoredMarker(k, a[k])]
                       ELSE [k \in DOMAIN b |-> StoredMarker(k, b[k])]] :
        a \in {<<NoGroup, NoGroup>>, <<NoGroup, 1, 1>>},
        b \in {<<NoGroup, NoGroup>>}}

InitCross == InitWith(CrossDecks, CrossEdits, "editor", 0)

\* Stylus taps with the pen tool on the markers of either image, toggleLink
\* called for either image, undo, commits and deliveries.
NextCross ==
    \/ \E img \in DOMAIN images :
          \E i \in DOMAIN images[img] : MarkerPointerDown(img, "pen", i)
    \/ \E img \in DOMAIN images :
          \E i \in DOMAIN images[img] : LinkMarkerCall(img, i)
    \/ Undo
    \/ Settle
    \/ Refresh

SpecCross == InitCross /\ [][NextCross]_vars

\* The editor on a deck of two images, the user working the deletion dialog:
\* the dialog covers the page, so the menu entry is reached only while no
\* dialog is open; the live query delivers when it has something to deliver.
InitDelete == InitWith(CrossDecks, 0, "editor", 0)

NextDelete ==
    \/ /\ confirmingDeleteImageId = NoImageId
       /\ \E img \in DOMAIN images : DeleteClick(img)
    \/ DeleteCancel
    \/ DeleteConfirm
    \/ DeleteCommit
    \/ DeleteResume
    \/ Refresh

SpecDelete == InitDelete /\ [][NextDelete]_vars

\* Every issued write has committed and the live query has delivered it.
Quiescent == writes = <<>> /\ ~stale

\* One deck under both pages in turn: the editor links, unlinks and erases with
\* the stylus, the study page reveals, locks and unlocks; the user taps and
\* changes the page when nothing is in flight on the page that is shown.
DeckPatterns == {<<NoGroup, NoGroup>>, <<NoGroup, 1, 1>>}

DeckLists == {[k \in DOMAIN gs |-> StoredMarker(k, gs[k])] : gs \in DeckPatterns}

InitDeck == InitWith([{1} -> DeckLists], DeckEdits, "editor", 0)

NextDeck ==
    \/ /\ page = "editor"
       /\ \/ /\ Quiescent
             /\ \E img \in DOMAIN images :
                   \E i \in DOMAIN images[img] : MarkerPointerDown(img, "pen", i)
          \/ \E tool \in Tools : ToolChange(tool)
          \/ Undo
          \/ Settle
          \/ Refresh
    \/ /\ page = "player"
       /\ \/ /\ Settled
             /\ \E img \in DOMAIN playerImages :
                   \E i \in DOMAIN playerImages[img] : MarkerTap(img, "pen", i)
          \/ TapCommit
          \/ TapResume
          \/ PlayerRefresh
    \/ /\ page = "player" /\ Settled
       /\ EditFromPlayer
    \/ /\ page = "editor" /\ Quiescent /\ ~linkMode.active
       /\ OpenPage("player")

SpecDeck == InitDeck /\ [][NextDeck]_vars

\* A long editing session with the stylus on an empty image: rectangles are
\* drawn and erased over and over, deep enough to fill the history. The user
\* is slower than the persistence layer (every contact and button press finds
\* the editor quiescent) and presses undo between gestures, not during one.
InitDeep == InitWith({[i \in {1} |-> <<>>]}, DeepEdits, "editor", 0)

NextDeep ==
    \/ \E img \in DOMAIN images :
          \E p \in StartPoints : Quiescent /\ CanvasPointerDown(img, "pen", p)
    \/ \E img \in DOMAIN images :
          \E p \in MovePoints : Quiescent /\ PointerMove(img, "pen", p)
    \/ \E img \in DOMAIN images :
          Quiescent /\ PointerUp(img, "pen")
    \/ \E img \in DOMAIN images :
          \E i \in DOMAIN images[img] :
             Quiescent /\ activeTool = "eraser" /\ MarkerPointerDown(img, "pen", i)
    \/ \E tool \in Tools : Quiescent /\ ToolChange(tool)
    \/ Quiescent /\ (\A img \in DOMAIN images : ~drawing[img].isDrawing) /\ Undo
    \/ Settle
    \/ Refresh

SpecDeep == InitDeep /\ [][NextDeep]_vars

\* The k-th marker of a list the study page is opened on.
StudyMarker(k, gl) == Marker(10 + 20 * k, 30, 9, 9, gl[1], gl[2])

\* <<groupId, isLocked>> of the markers of the lists the study page is opened
\* on: ungrouped markers, groups of two and three, a group around an ungrouped
\* marker, a group locked by an earlier session, and a group whose members the
\* editor linked after one of them had been locked.
StudyPatterns ==
    { <<<<NoGroup, "undefined">>>>,
      <<<<NoGroup, "undefined">>, <<NoGroup, "false">>>>,
      <<<<1, "undefined">>, <<1, "undefined">>>>,
      <<<<1, "undefined">>, <<NoGroup, "undefined">>, <<1, "undefined">>>>,
      <<<<1, "undefined">>, <<1, "undefined">>, <<1, "undefined">>>>,
      <<<<1, "true">>, <<1, "true">>, <<NoGroup, "undefined">>>>,
      <<<<1, "true">>, <<1, "undefined">>>> }

StudyLists == {[k \in DOMAIN gs |-> StudyMarker(k, gs[k])] : gs \in StudyPatterns}

\* The study page opened on a deck of one image; the editor is not mounted.
InitStudy == InitWith([{1} -> StudyLists], 0, "player", 0)

NextStudy ==
    \/ \E img \in DOMAIN playerImages, t \in PointerTypes :
          \E i \in DOMAIN playerImages[img] : MarkerTap(img, t, i)
    \/ TapCommit
    \/ TapResume
    \/ PlayerRefresh

SpecStudy == InitStudy /\ [][NextStudy]_vars

\* The study page with its two navigation buttons; the user taps a marker when
\* no tap is in flight. A deck of one image:
\* three ungrouped markers, an ungrouped marker before a group, or two
\* ungrouped markers stored with the farther one first.
NavLists ==
    {[k \in DOMAIN gs |-> StoredMarker(k, gs[k])] :
        gs \in {<<NoGroup, NoGroup, NoGroup>>, <<NoGroup, 1, 1>>}}
    \cup {<<StoredMarker(2, NoGroup), StoredMarker(1, NoGroup)>>}

InitNav == InitWith([{1} -> NavLists], 0, "player", 0)

NextNav ==
    \/ /\ Settled
       /\ \E img \in DOMAIN playerImages :
             \E i \in DOMAIN playerImages[img] : MarkerTap(img, "pen", i)
    \/ TapCommit
    \/ TapResume
    \/ PlayerRefresh
    \/ NextMarker
    \/ PrevMarker

SpecNav == InitNav /\ [][NextNav]_vars

\* ------------------------------------------------------------------ claims

GroupIds(list) == [k \in DOMAIN list |-> list[k].groupId]

\* The markers of list outside group g, in their order.
Survivors(list, g) ==
    LET Outside(m) == m.groupId # g
    IN  SelectSeq(list, Outside)

\* C1 (as stated): a toggleLink whose target carries a non-empty groupId that
\* differs from the anchor's changes the groupId of no marker; an ungrouped
\* anchor stays ungrouped.
C1_Exclusivity ==
    [][\A img \in DOMAIN images : \A i \in DOMAIN images[img] :
          (/\ LinkActiveFor(img)
           /\ activeTool = "pen"
           /\ linkMode.parentMarkerIndex \in DOMAIN images[img]
           /\ i # linkMode.parentMarkerIndex
           /\ images[img][i].groupId # NoGroup
           /\ images[img][i].groupId # images[img][linkMode.parentMarkerIndex].groupId
           /\ MarkerPointerDown(img, "pen", i))
          => GroupIds(images'[img]) = GroupIds(images[img])]_vars

\* C2: removeMarker on a grouped marker leaves no marker of that group and every
\* other marker in its original relative order; on an ungrouped marker it
\* removes exactly that element.
C2_RemoveCascade ==
    [][\A img \in DOMAIN images : \A i \in DOMAIN images[img] :
          (activeTool = "eraser" /\ MarkerPointerDown(img, "pen", i))
          => LET old == images[img]
                 new == images'[img]
                 g == old[i].groupId
             IN  IF g # NoGroup
                 THEN /\ \A k \in DOMAIN new : new[k].groupId # g
                      /\ new = Survivors(old, g)
                 ELSE /\ Len(new) = Len(old) - 1
                      /\ \A k \in DOMAIN new :
                            new[k] = IF k < i THEN old[k] ELSE old[k + 1]]_vars

\* C2 witness: the eraser hit a member of a group of two in a list of three and
\* the ungrouped marker is what remains.
C2_Witness ==
    /\ lastEdit.op = "remove"
    /\ Len(lastEdit.before) = 3
    /\ lastEdit.before[2].groupId # NoGroup
    /\ lastEdit.before[1].groupId = NoGroup
    /\ images[lastEdit.img] = <<lastEdit.before[1]>>

\* C3: after a link session anchored at A linked B, removeMarker on A removes
\* both A and B and nothing outside their group.
C3_LinkCascade ==
    lastLink.phase = "erased" =>
        LET old == lastEdit.before
            g == old[lastLink.a].groupId
        IN  /\ lastEdit.op = "remove"
            /\ lastLink.a # lastLink.b
            /\ g # NoGroup
            /\ old[lastLink.b].groupId = g
            /\ images[lastLink.img] = Survivors(old, g)

\* C3 witness: anchor and target went, the third marker of the list stayed.
C3_Witness ==
    /\ lastLink.phase = "erased"
    /\ Len(lastEdit.before) = 3
    /\ Len(images[lastLink.img]) = 1

\* What C4 states about a release on image img, given the condition under which
\* the rectangle is committed.
DrawEffect(img, committed) ==
    LET start == drawing[img].startPos
        current == drawing[img].currentPos
        old == images[img]
        new == images'[img]
    IN  IF committed
        THEN /\ Len(new) = Len(old) + 1
             /\ \A k \in DOMAIN old : new[k] = old[k]
             /\ new[Len(new)].groupId = NoGroup
             /\ new[Len(new)].x = Min(start.x, current.x)
             /\ new[Len(new)].y = Min(start.y, current.y)
             /\ new[Len(new)].width = Abs(current.x - start.x)
             /\ new[Len(new)].height = Abs(current.y - start.y)
        ELSE /\ images' = images
             /\ history' = history
             /\ db' = db
             /\ writes' = writes

\* C4 (as stated): a draw gesture released with width > 5 and height > 5 appends
\* exactly one ungrouped marker with bounds (min x, min y, |dx|, |dy|); any
\* other release leaves marker list, undo stack and storage unchanged.
C4_DrawThreshold ==
    [][\A img \in DOMAIN images : \A t \in PointerTypes :
          (drawing[img].isDrawing /\ PointerUp(img, t))
          => DrawEffect(img,
                 /\ Abs(drawing[img].currentPos.x - drawing[img].startPos.x) > 5
                 /\ Abs(drawing[img].currentPos.y - drawing[img].startPos.y) > 5)]_vars

\* C4 (amended): a draw gesture released while the draw tool is still the
\* active tool, with width > 5 and height > 5, appends exactly one ungrouped
\* marker with bounds (min x, min y, |dx|, |dy|); any other release leaves
\* marker list, undo stack and storage unchanged.
C4_DrawThresholdPen ==
    [][\A img \in DOMAIN images : \A t \in PointerTypes :
          (drawing[img].isDrawing /\ PointerUp(img, t))
          => DrawEffect(img,
                 /\ activeTool = "pen"
                 /\ Abs(drawing[img].currentPos.x - drawing[img].startPos.x) > 5
                 /\ Abs(drawing[img].currentPos.y - drawing[img].startPos.y) > 5)]_vars

\* C4 witness: a rectangle dragged from (14,14) up and left to (5,20) was
\* committed as the last marker, with bounds (5, 14, 9, 6).
C4_Witness ==
    /\ lastEdit.op = "add"
    /\ Len(images[lastEdit.img]) = Len(lastEdit.before) + 1
    /\ LET m == images[lastEdit.img][Len(images[lastEdit.img])]
       IN  m.x = 5 /\ m.y = 14 /\ m.width = 9 /\ m.height = 6 /\ m.groupId = NoGroup

\* C5: the undo stack never holds more than 10 entries; a push at depth 10
\* drops the oldest entry and the other 9 keep their order below the new one.
C5_HistoryCap ==
    /\ [](Len(history) <= 10)
    /\ [][(budget' < budget /\ Len(history) = 10)
          => /\ Len(history') = 10
             /\ \A k \in 1..9 : history'[k] = history[k + 1]
             /\ history'[10].imageId \in DOMAIN images
             /\ history'[10].markers = images[history'[10].imageId]]_vars

\* C5 witness: eleven mutations without an undo, the stack holds 10 entries.
C5_Witness ==
    /\ run.valid
    /\ run.muts = 11
    /\ run.undos = 0
    /\ Len(history) = 10

\* C6: from an empty stack, 15 successful mutations of one image followed by 10
\* undo calls leave the list that existed after the 5th mutation and an empty
\* stack.
C6_DepthTen ==
    (run.valid /\ run.muts = 15 /\ run.undos = 10)
    => (images[run.img] = run.snap /\ history = <<>>)

\* C6 witness: the 10th undo call after 15 mutations has run.
C6_Witness == run.valid /\ run.muts = 15 /\ run.undos = 10

\* C7: a successful add, remove, link or unlink followed by undo restores the
\* list the mutation found, element for element and in the same order.
C7_UndoRoundTrip ==
    [][(lastEdit.op \in {"add", "remove", "link", "unlink"} /\ Undo)
       => images'[lastEdit.img] = lastEdit.before]_vars

\* C7 witness: the undo of a link that had moved the anchor from the second
\* position to the first; the anchor is back in second position, ungrouped.
C7_Witness ==
    /\ lastEdit.op = "undo"
    /\ history = <<>>
    /\ Len(lastEdit.before) = 2
    /\ Len(images[lastEdit.img]) = 2
    /\ lastEdit.before[1].groupId # NoGroup
    /\ lastEdit.before[1].x = images[lastEdit.img][2].x
    /\ lastEdit.before[1].x # images[lastEdit.img][1].x
    /\ images[lastEdit.img][2].groupId = NoGroup

\* C8: undo on an empty stack changes neither marker lists, stack nor storage,
\* and canUndo is false exactly when the stack is empty; undo on a non-empty
\* stack removes exactly the most recent entry and pushes nothing.
C8_UndoStack ==
    /\ [](CanUndo <=> history # <<>>)
    /\ [][Undo
          => IF history = <<>>
             THEN images' = images /\ history' = history /\ db' = db /\ writes' = writes
             ELSE /\ Len(history') = Len(history) - 1
                  /\ \A k \in DOMAIN history' : history'[k] = history[k]]_vars

\* C8 witness: an undo took the top entry off a stack of two.
C8_Witness ==
    /\ lastEdit.op = "undo"
    /\ Len(history) = 1
    /\ budget = 0

\* The members of the group of marker index in list: the index alone when the
\* marker is ungrouped.
Members(list, index) ==
    {m \in DOMAIN list :
        m = index \/ (list[index].groupId # NoGroup /\ list[m].groupId = list[index].groupId)}

\* C9: three consecutive stylus taps on any member of an unlocked, non-transparent
\* marker or group take it DEFAULT -> TRANSPARENT -> LOCKED -> DEFAULT: the first
\* tap issues no write, the second persists isLocked=true, the third persists
\* isLocked=false, and after the third tap no member is transparent.
C9_StudyCycle ==
    LET stored == db[cycle.img]
    IN  /\ cycle.taps = 1 =>
              /\ cycle.log = <<"none">>
              /\ pending = <<>>
              /\ cycle.members \subseteq transparentMarkers[cycle.img]
              /\ \A m \in cycle.members : stored[m].isLocked # "true"
        /\ cycle.taps = 2 =>
              /\ cycle.log = <<"none", "true">>
              /\ Settled => \A m \in cycle.members :
                               /\ stored[m].isLocked = "true"
                               /\ playerImages[cycle.img][m].isLocked = "true"
        /\ cycle.taps = 3 =>
              /\ cycle.log = <<"none", "true", "false">>
              /\ cycle.members \cap transparentMarkers[cycle.img] = {}
              /\ Settled => \A m \in cycle.members :
                               /\ stored[m].isLocked = "false"
                               /\ playerImages[cycle.img][m].isLocked = "false"

\* C9 witness: the third tap on a group of three has settled.
C9_Witness ==
    /\ cycle.taps = 3
    /\ Cardinality(cycle.members) = 3
    /\ Settled

\* C10: the transaction of a TRANSPARENT -> LOCKED tap on one member of a group
\* of N persists isLocked=true on all N members in one write, that of a
\* LOCKED -> DEFAULT tap persists isLocked=false on all N; no write updates a
\* proper subset of the group.
C10_GroupLock ==
    [][(pending # <<>> /\ TapCommit)
       => LET call == Head(pending)
              old == db[call.imageId]
              new == db'[call.imageId]
              value == IF call.lock THEN "true" ELSE "false"
          IN  /\ Len(new) = Len(old)
              /\ \E i \in call.groupIndices :
                    \A m \in DOMAIN old :
                       new[m] = IF m \in Members(old, i)
                                THEN [old[m] EXCEPT !.isLocked = value]
                                ELSE old[m]]_vars

\* C10 witness: the lock of a group of three has committed, every member is
\* stored locked and the call has not resumed yet.
C10_Witness ==
    /\ pending # <<>>
    /\ Head(pending).committed
    /\ Head(pending).lock
    /\ Cardinality(Head(pending).groupIndices) = 3
    /\ \A m \in DOMAIN db[Head(pending).imageId] :
          db[Head(pending).imageId][m].isLocked = "true"

\* C11: enterLinkSession on a marker that has a groupId and is not the
\* lowest-index marker with that groupId opens no session and leaves session
\* state, marker lists and undo stack unchanged; on an ungrouped marker or the
\* lowest-index marker of a group it opens a session anchored at that index on
\* that image.
C11_EnterSession ==
    [][\A img \in DOMAIN images : \A i \in DOMAIN images[img] :
          (activeTool = "pen" /\ ~LinkActiveFor(img) /\ MarkerPointerDown(img, "pen", i))
          => LET list == images[img]
                 child == /\ list[i].groupId # NoGroup
                          /\ \E j \in 1..(i - 1) : list[j].groupId = list[i].groupId
             IN  /\ images' = images
                 /\ history' = history
                 /\ writes' = writes
                 /\ db' = db
                 /\ linkMode' = IF child THEN linkMode
                                ELSE [active |-> TRUE, parentMarkerIndex |-> i,
                                      imageId |-> img]]_vars

\* C11 witness: a session was opened on the lowest-index member of a stored
\* group, which is not the first marker of the list.
C11_Witness ==
    /\ linkMode.active
    /\ linkMode.parentMarkerIndex = 2
    /\ history = <<>>
    /\ images[linkMode.imageId][2].groupId # NoGroup
    /\ images[linkMode.imageId][1].groupId = NoGroup

\* The bounds of a marker: what tells the markers of a list apart.
Geometry(m) == <<m.x, m.y, m.width, m.height>>

\* The groupIds found in any list of the editor.
UsedGroupIds ==
    UNION {{images[img][k].groupId : k \in DOMAIN images[img]} : img \in DOMAIN images}

\* C12: with a session open, toggleLink on an ungrouped marker other than the
\* anchor leaves anchor and target with the same groupId (the anchor's id, or a
\* fresh id no marker used if the anchor was ungrouped) and the groupId of every
\* other marker unchanged.
C12_Link ==
    [][\A img \in DOMAIN images : \A i \in DOMAIN images[img] :
          (/\ LinkActiveFor(img)
           /\ activeTool = "pen"
           /\ linkMode.parentMarkerIndex \in DOMAIN images[img]
           /\ i # linkMode.parentMarkerIndex
           /\ images[img][i].groupId = NoGroup
           /\ MarkerPointerDown(img, "pen", i))
          => LET old == images[img]
                 new == images'[img]
                 p == linkMode.parentMarkerIndex
             IN  /\ Len(new) = Len(old)
                 /\ \E g \in {new[k].groupId : k \in DOMAIN new} \ {NoGroup} :
                       /\ IF old[p].groupId # NoGroup
                          THEN g = old[p].groupId
                          ELSE g \notin UsedGroupIds
                       /\ \A k \in DOMAIN old :
                             \E n \in DOMAIN new :
                                /\ Geometry(new[n]) = Geometry(old[k])
                                /\ new[n].groupId =
                                      IF k \in {p, i} THEN g ELSE old[k].groupId]_vars

\* C12 witness: in a list of three ungrouped markers the anchor was linked to a
\* marker in front of it and now stands before it; the third marker is ungrouped.
C12_Witness ==
    /\ lastLink.phase = "linked"
    /\ lastEdit.op = "link"
    /\ Len(images[lastLink.img]) = 3
    /\ \A k \in DOMAIN lastEdit.before : lastEdit.before[k].groupId = NoGroup
    /\ lastLink.a < lastLink.b
    /\ images[lastLink.img][lastLink.a].x > images[lastLink.img][lastLink.b].x
    /\ \E k \in DOMAIN images[lastLink.img] : images[lastLink.img][k].groupId = NoGroup

\* C13: toggleLink on a marker that carries the anchor's groupId removes the
\* target's groupId; if no marker other than the anchor then carries that id the
\* anchor's groupId is removed as well, otherwise anchor and remaining members
\* keep it.
C13_Unlink ==
    [][\A img \in DOMAIN images : \A i \in DOMAIN images[img] :
          (/\ LinkActiveFor(img)
           /\ activeTool = "pen"
           /\ linkMode.parentMarkerIndex \in DOMAIN images[img]
           /\ i # linkMode.parentMarkerIndex
           /\ images[img][i].groupId # NoGroup
           /\ images[img][i].groupId = images[img][linkMode.parentMarkerIndex].groupId
           /\ MarkerPointerDown(img, "pen", i))
          => LET old == images[img]
                 p == linkMode.parentMarkerIndex
                 g == old[p].groupId
                 remaining == {k \in DOMAIN old \ {p, i} : old[k].groupId = g}
             IN  images'[img] =
                    [k \in DOMAIN old |->
                        IF k = i \/ (k = p /\ remaining = {})
                        THEN [old[k] EXCEPT !.groupId = NoGroup]
                        ELSE old[k]]]_vars

\* C13 witness: one member of a group of three was unlinked, the anchor and the
\* other member still share the id.
C13_Witness ==
    /\ lastEdit.op = "unlink"
    /\ Len(lastEdit.before) = 3
    /\ \A k \in DOMAIN lastEdit.before : lastEdit.before[k].groupId # NoGroup
    /\ Cardinality({k \in DOMAIN images[lastEdit.img] :
                       images[lastEdit.img][k].groupId # NoGroup}) = 2

\* C14: closing a session (toggleLink on the anchor, which calls
\* exitLinkSession) clears the session and leaves every marker list, the undo
\* stack and the persisted storage unchanged; toggleLink with no session open
\* changes nothing.
C14_CloseSession ==
    [][\A img \in DOMAIN images : \A i \in DOMAIN images[img] :
          /\ (LinkActiveFor(img) /\ i = linkMode.parentMarkerIndex
                /\ (LinkMarkerCall(img, i)
                      \/ (activeTool = "pen" /\ MarkerPointerDown(img, "pen", i))))
             => /\ linkMode' = NoLink
                /\ images' = images
                /\ history' = history
                /\ db' = db
                /\ writes' = writes
          /\ (~linkMode.active /\ LinkMarkerCall(img, i))
             => UNCHANGED <<linkMode, images, history, db, writes>>]_vars

\* C14 witness: the session in which a link was made has been closed and the
\* group is still there.
C14_Witness ==
    /\ linkMode = NoLink
    /\ lastEdit.op = "link"
    /\ \E k \in DOMAIN images[lastEdit.img] :
          images[lastEdit.img][k].groupId \notin {NoGroup, 1}

\* C15 (as stated): a toggleLink whose target belongs to a foreign non-empty
\* group pushes no entry onto the undo stack and issues no persistence write.
C15_RejectSilent ==
    [][\A img \in DOMAIN images : \A i \in DOMAIN images[img] :
          (/\ LinkActiveFor(img)
           /\ activeTool = "pen"
           /\ linkMode.parentMarkerIndex \in DOMAIN images[img]
           /\ i # linkMode.parentMarkerIndex
           /\ images[img][i].groupId # NoGroup
           /\ images[img][i].groupId # images[img][linkMode.parentMarkerIndex].groupId
           /\ MarkerPointerDown(img, "pen", i))
          => (history' = history /\ writes' = writes)]_vars

\* C16: toggleLink called for an image other than the session's changes no
\* marker list, pushes no undo entry and issues no write; a tap on a marker of
\* another image is never routed to toggleLink; no groupId is shared by markers
\* of two images.
C16_CrossImage ==
    /\ [](\A a \in DOMAIN images, b \in DOMAIN images :
             a # b => \A k \in DOMAIN images[a], n \in DOMAIN images[b] :
                         \/ images[a][k].groupId = NoGroup
                         \/ images[a][k].groupId # images[b][n].groupId)
    /\ [][\A img \in DOMAIN images : \A i \in DOMAIN images[img] :
             (/\ linkMode.active
              /\ linkMode.imageId # img
              /\ (LinkMarkerCall(img, i)
                    \/ (activeTool = "pen" /\ MarkerPointerDown(img, "pen", i))))
             => (images' = images /\ history' = history /\ writes' = writes
                   /\ db' = db)]_vars

\* C16 witness: toggleLink was called for the image without the session while
\* the other image holds a group made in this session.
C16_Witness ==
    /\ lastEdit.op = "foreign"
    /\ linkMode.active
    /\ linkMode.imageId # lastEdit.img
    /\ images[lastEdit.img] = lastEdit.before
    /\ \E k \in DOMAIN images[linkMode.imageId] :
          images[linkMode.imageId][k].groupId \notin {NoGroup, 1}

\* C17 (as stated): two edits of one image, the second issued before the write
\* of the first has settled and been delivered back to the list the handlers
\* read, do not clobber each other: once both writes have settled, the list in
\* memory and the persisted list are the list the second edit built on the
\* result of the first.
C17_RapidEdits ==
    (/\ Len(history) = 2
     /\ history[1].imageId = history[2].imageId
     /\ lastEdit.op \in {"add", "remove", "link", "unlink"}
     /\ writes = <<>>)
    => LET img == lastEdit.img
       IN  /\ lastEdit.before = history[2].markers
           /\ db[img] = applied[img]
           /\ images[img] = applied[img]

\* C18: when a write of saveMarkers fails, the failure reaches the caller (the
\* handler's promise is rejected with that write), the list in memory keeps the
\* value the handler gave it, the history keeps the snapshot pushed for that
\* mutation, and the stored row is not touched: nothing is rolled back.
C18_FailedWrite ==
    [][SaveFails =>
          /\ rejections' = Append(rejections, Head(writes))
          /\ images' = images
          /\ history' = history
          /\ db' = db]_vars

\* A rejected add or remove whose optimistic list is still in memory, differs
\* from the stored row, and whose snapshot is still on the history.
C18_Witness ==
    /\ rejections # <<>>
    /\ writes = <<>>
    /\ lastEdit.op \in {"add", "remove"}
    /\ rejections[Len(rejections)].markers = applied[lastEdit.img]
    /\ images[lastEdit.img] = applied[lastEdit.img]
    /\ images[lastEdit.img] # db[lastEdit.img]
    /\ history # <<>>
    /\ history[Len(history)].markers = lastEdit.before

\* C19 (as stated): in every reachable state of the editor and of the player
\* the scale of the view transform lies within [0.1, 5], whatever sequence of
\* pan, pinch-zoom, manual or initial fit-to-screen and hand-over of the
\* transform from the player to the editor led there.
C19_ScaleBounds ==
    /\ ~RLess(transform.scale, MinScale)
    /\ ~RLess(MaxScale, transform.scale)

\* The content-space point the transform t shows at the view-space point (vx, vy).
ContentPoint(t, vx, vy) ==
    [x |-> RDiv(RSub(vx, t.x), t.scale), y |-> RDiv(RSub(vy, t.y), t.scale)]

\* The view-space point at which the transform t shows the content-space point p.
ViewPoint(t, p) ==
    [x |-> RAdd(RMul(p.x, t.scale), t.x), y |-> RAdd(RMul(p.y, t.scale), t.y)]

\* C20: a two-contact update keeps the centroid of the two contacts fixed: the
\* content-space point that was shown at the centroid before the update is
\* shown at the centroid after it, also when the scale was clamped at a bound.
C20_PinchCentroid ==
    lastPinch.on =>
        ViewPoint(transform, ContentPoint(lastPinch.prev, lastPinch.cx, lastPinch.cy))
            = [x |-> lastPinch.cx, y |-> lastPinch.cy]

\* A pinch that was clamped at the upper bound, with the translation moved and
\* the centroid still showing the same content-space point.
C20_Witness ==
    /\ lastPinch.on
    /\ lastPinch.clamped
    /\ transform.scale = MaxScale
    /\ transform.x # lastPinch.prev.x
    /\ ViewPoint(transform, ContentPoint(lastPinch.prev, lastPinch.cx, lastPinch.cy))
           = [x |-> lastPinch.cx, y |-> lastPinch.cy]

\* C21 (as stated): a finger contact is never consumed by the marker editor:
\* whether it lands on empty canvas or on a marker, it starts no draw, erases
\* no marker or group, opens no link session and toggles no link.
C21_FingerRouting ==
    [][\A img \in DOMAIN images :
          (\/ \E p \in StartPoints : CanvasPointerDown(img, "touch", p)
           \/ \E i \in DOMAIN images[img] : MarkerPointerDown(img, "touch", i))
          => /\ drawing' = drawing
             /\ images' = images
             /\ linkMode' = linkMode
             /\ history' = history
             /\ writes' = writes]_vars

\* C22 (as stated): while a link session is open, a contact on empty canvas
\* starts no draw gesture, and the release of a contact adds no marker.
C22_NoDrawInSession ==
    [][\A img \in DOMAIN images :
          (/\ linkMode.active
           /\ \/ \E t \in PointerTypes, p \in StartPoints : CanvasPointerDown(img, t, p)
              \/ \E t \in PointerTypes : PointerUp(img, t))
          => /\ drawing'[img].isDrawing => drawing[img].isDrawing
             /\ Len(images'[img]) = Len(images[img])]_vars

\* C23 (as stated): a draw starts only when the active tool is the pen and a
\* stylus contact starts on empty canvas; a contact on a marker never starts a
\* draw, and a mouse contact never starts a draw.
C23_DrawEntry ==
    [][\A img \in DOMAIN images : \A t \in PointerTypes :
          /\ \A p \in StartPoints :
                (/\ CanvasPointerDown(img, t, p)
                 /\ ~drawing[img].isDrawing
                 /\ drawing'[img].isDrawing)
                => (t = "pen" /\ activeTool = "pen" /\ ~OnMarker(img, p))
          /\ \A i \in DOMAIN images[img] :
                MarkerPointerDown(img, t, i) => drawing' = drawing]_vars

\* A step of the touch handlers of the mounted page.
TouchStep ==
    \/ \E c \in Contacts \cup StylusContacts : TouchStart(c.touchType, c.touches)
    \/ \E c \in Contacts \cup StylusContacts : TouchMove(c.touchType, c.touches)
    \/ \E c \in Contacts \cup StylusContacts : TouchEnd(c.touchType, c.touches)
    \/ TouchEnd("direct", <<>>)

C25_EndKeepsTransform ==
    [][\A c \in Contacts \cup StylusContacts \cup {[touchType |-> "direct", touches |-> <<>>]} :
          TouchEnd(c.touchType, c.touches)
          => /\ transform' = transform
             /\ lastDistRef' = NoDist
             /\ Len(c.touches) = 0 => lastTouchRef' = NoPos
             /\ Len(c.touches) = 1 => lastTouchRef' = c.touches[1]
             /\ Len(c.touches) = 2 => lastTouchRef' = lastTouchRef]_vars

\* The fingers were lifted after a pinch: the baseline is cleared and the
\* transform is the one the pinch computed.
C25_Witness ==
    /\ lastPinch.on
    /\ transform # lastPinch.prev
    /\ lastDistRef = NoDist
    /\ lastTouchRef = NoPos

\* ---------------------------------------------------------------- C26

\* The bounds of the markers of a list, in list order.
Geometries(list) == [k \in DOMAIN list |-> Geometry(list[k])]

\* How many markers of the list have the bounds g.
GeometryCount(list, g) == Cardinality({k \in DOMAIN list : Geometry(list[k]) = g})

\* A study step: a tap on a marker, the transaction of a tap, or its resumption.
StudyStep ==
    \/ \E img \in DOMAIN playerImages :
          \E i \in DOMAIN playerImages[img] : MarkerTap(img, "pen", i)
    \/ TapCommit
    \/ TapResume

\* C26: a marker's x, y, width and height never change after creation. A stylus
\* tap on a marker in the editor (link, unlink with or without the anchor
\* reordering, rejected link, session open/close, cascade delete) leaves every
\* surviving marker with the bounds it had and creates no new bounds: under the
\* pen each bounds tuple occurs as often as before, under the eraser at most as
\* often. A study step (reveal, lock, unlock) leaves the bounds of every marker
\* unchanged position by position, in the page's lists and in the storage.
C26_GeometryImmutable ==
    [][/\ \A img \in DOMAIN images : \A i \in DOMAIN images[img] :
            (page = "editor" /\ MarkerPointerDown(img, "pen", i))
            => \A g \in {Geometry(images[img][k]) : k \in DOMAIN images[img]}
                        \cup {Geometry(images'[img][k]) : k \in DOMAIN images'[img]} :
                  IF activeTool = "pen"
                  THEN GeometryCount(images'[img], g) = GeometryCount(images[img], g)
                  ELSE GeometryCount(images'[img], g) <= GeometryCount(images[img], g)
       /\ (page = "player" /\ StudyStep)
            => \A img \in DOMAIN db :
                  /\ Geometries(db'[img]) = Geometries(db[img])
                  /\ Geometries(playerImages'[img]) = Geometries(playerImages[img])]_vars

\* C26 witness: a marker was locked on the study page, and back in the editor a
\* link moved the anchor in front of its target, so the list order changed.
C26_Witness ==
    /\ page = "editor"
    /\ lastEdit.op = "link"
    /\ Len(images[lastEdit.img]) = Len(lastEdit.before)
    /\ Geometries(images[lastEdit.img]) # Geometries(lastEdit.before)
    /\ \E k \in DOMAIN images[lastEdit.img] : images[lastEdit.img][k].isLocked = "true"

\* ---------------------------------------------------------------- C27

\* The structural mutations of the editor that succeed.
Mutations == {"add", "remove", "link", "unlink"}

\* C27: every handler run that adds, removes, links or unlinks pushes exactly
\* one undo entry {imageId, markers} holding the image's list as it was before
\* the run (the entries below it are the newest of the old stack, in order),
\* and issues exactly one write, of the list the page now shows for that image;
\* the entry is on the stack while the write is still in flight.
C27_PushThenWrite ==
    [][(budget' = budget - 1 /\ lastEdit'.op \in Mutations)
        => LET img == lastEdit'.img
               n == Len(history')
           IN  /\ n >= 1
               /\ n = Min(Len(history), HistoryKeep) + 1
               /\ history'[n] = [imageId |-> img, markers |-> images[img]]
               /\ SubSeq(history', 1, n - 1) = SliceLast(history, n - 1)
               /\ Len(writes') = Len(writes) + 1
               /\ SubSeq(writes', 1, Len(writes)) = writes
               /\ writes'[Len(writes')] = [imageId |-> img, markers |-> images'[img]]
               /\ \A other \in DOMAIN images \ {img} : images'[other] = images[other]
               /\ db' = db]_vars

\* C27 witness: an unlink has pushed the list with the group still in it, and
\* the write of the list without the group has not yet reached the storage.
C27_Witness ==
    /\ lastEdit.op = "unlink"
    /\ history # <<>>
    /\ history[Len(history)] = [imageId |-> lastEdit.img, markers |-> lastEdit.before]
    /\ writes # <<>>
    /\ writes[Len(writes)] = [imageId |-> lastEdit.img, markers |-> images[lastEdit.img]]
    /\ images[lastEdit.img] # lastEdit.before
    /\ db[lastEdit.img] = lastEdit.before

\* ---------------------------------------------------------------- C28

\* C28: undo restores the image named in the popped entry and no other. The
\* undo step sets that image's in-memory list to the entry's snapshot, leaves
\* the list of every other image as it was, drops the entry and issues one
\* write {imageId, snapshot}; when that write commits, the stored list of the
\* image is the snapshot and every other stored list is unchanged; and once the
\* write has committed and been delivered, memory and storage both hold the
\* snapshot for that image.
C28_UndoOneImage ==
    [][/\ (CanUndo /\ Undo)
            => LET entry == history[Len(history)]
               IN  /\ images'[entry.imageId] = entry.markers
                   /\ \A other \in DOMAIN images \ {entry.imageId} :
                         images'[other] = images[other]
                   /\ history' = SubSeq(history, 1, Len(history) - 1)
                   /\ writes' = Append(writes, [imageId |-> entry.imageId,
                                                markers |-> entry.markers])
                   /\ db' = db
       /\ (lastEdit.op = "undo" /\ Len(writes) = 1 /\ Settle)
            => /\ db'[lastEdit.img] = applied[lastEdit.img]
               /\ \A other \in DOMAIN db \ {lastEdit.img} : db'[other] = db[other]
       /\ (lastEdit.op = "undo" /\ Quiescent)
            => /\ images[lastEdit.img] = applied[lastEdit.img]
               /\ db[lastEdit.img] = applied[lastEdit.img]]_vars

\* C28 witness: two images were edited, the edit of one was undone and the
\* write has committed; the entry of the other image is still on the stack and
\* that image still shows its edit.
C28_Witness ==
    /\ lastEdit.op = "undo"
    /\ Quiescent
    /\ history # <<>>
    /\ history[Len(history)].imageId # lastEdit.img
    /\ images[history[Len(history)].imageId] # history[Len(history)].markers
    /\ images[lastEdit.img] # lastEdit.before
    /\ db[lastEdit.img] = images[lastEdit.img]

\* ---------------------------------------------------------------- C29

\* The callback of the 100 ms timer of the "Initial Fit" effect runs: the page
\* has images, has not been fitted, and was given no transform to take over.
TimerFires ==
    /\ ~(page = "editor" /\ locationState # NoState)
    /\ \E f \in Fits : InitialFit(f.innerWidth, f.img)

\* C29 (as stated): the view transform, the marker lists and the session state
\* change only in a step made by an input event (contact, tap, toolbar
\* action); a step made by a timer callback leaves all of them as they were.
C29_InputDriven ==
    [][TimerFires
        => UNCHANGED <<transform, images, db, playerImages, linkMode, activeTool,
                       transparentMarkers>>]_vars

\* ---------------------------------------------------------------- C30

\* The markers of the list fall into groups whose members agree on isLocked;
\* false and undefined both read as not locked.
GroupsLockTogether(list) ==
    \A a \in DOMAIN list : \A b \in DOMAIN list :
        (list[a].groupId # NoGroup /\ list[a].groupId = list[b].groupId)
        => (list[a].isLocked = "true") = (list[b].isLocked = "true")

\* C30 (as stated): in every reachable state all markers of an image that share
\* a groupId have the same isLocked value, in the editor's lists, in the study
\* page's lists and in the storage.
C30_GroupLockedTogether ==
    \A img \in DOMAIN db :
        /\ GroupsLockTogether(images[img])
        /\ GroupsLockTogether(playerImages[img])
        /\ GroupsLockTogether(db[img])

\* ---------------------------------------------------------------- C31

\* Every groupId of the list is carried by at least two of its markers.
NoSingletonGroup(list) ==
    \A k \in DOMAIN list :
        list[k].groupId # NoGroup
        => \E j \in DOMAIN list \ {k} : list[j].groupId = list[k].groupId

\* C31 (as stated): in every reachable state every groupId that occurs in an
\* image's marker list, in memory or in the storage, is carried by at least
\* two markers of that image.
C31_NoSingletonGroups ==
    \A img \in DOMAIN images :
        /\ NoSingletonGroup(images[img])
        /\ NoSingletonGroup(db[img])

\* ---------------------------------------------------------------- C33

\* C33 (as stated): while a link session is active the toolbar is disabled: no
\* step changes the active tool and no step is an undo that pops the history.
C33_ToolbarDisabled ==
    [][linkMode.active
        => /\ activeTool' = activeTool
           /\ ~(CanUndo /\ Undo)]_vars

\* ---------------------------------------------------------------- C32

\* C32 (as stated): whenever a link session is open, linkMode.parentMarkerIndex
\* is an index of the current marker list of the session's image, and the
\* marker there is ungrouped or the first marker of the list with its groupId.
C32_AnchorValid ==
    linkMode.active
    => /\ linkMode.imageId \in DOMAIN images
       /\ linkMode.parentMarkerIndex \in DOMAIN images[linkMode.imageId]
       /\ LET markers == images[linkMode.imageId]
              anchor == markers[linkMode.parentMarkerIndex]
          IN  \/ anchor.groupId = NoGroup
              \/ FindIndex(markers, anchor.groupId) = linkMode.parentMarkerIndex

\* ---------------------------------------------------------------- C34

\* C34 (as stated): a stylus tap on a marker whose group has a tap still in
\* flight (its transaction not committed, or its result not yet resumed and
\* re-rendered) advances the machine by one further step: after a tap that
\* asked to lock, the tap asks to unlock; after a tap that asked to unlock, the
\* tap reveals the group and asks for no write.
C34_RapidTaps ==
    [][\A img \in DOMAIN playerImages : \A i \in DOMAIN playerImages[img] :
          (/\ pending # <<>>
           /\ pending[Len(pending)].imageId = img
           /\ i \in pending[Len(pending)].groupIndices
           /\ MarkerTap(img, "pen", i))
          => IF pending[Len(pending)].lock
             THEN /\ Len(pending') = Len(pending) + 1
                  /\ ~pending'[Len(pending')].lock
             ELSE /\ pending' = pending
                  /\ pending[Len(pending)].groupIndices \subseteq transparentMarkers'[img]]_vars

\* ---------------------------------------------------------------- C35

ValidNavIndex(index, navMarkers) == index >= 0 /\ index < Len(navMarkers)

\* currentNavIndex after a handler that was to set target (NoNav: sets none).
NavIndexAfter(target) == IF target = NoNav THEN currentNavIndex ELSE target

\* C36 (as stated): in every state of the study page with a non-empty navigable
\* list, a call of handleNextMarker and a call of handlePrevMarker each leave
\* currentNavIndex a valid index of that list, also when the list has become
\* shorter since the index was set.
C36_NavIndexInRange ==
    (page = "player" /\ GetAllNavigableMarkers # <<>>)
    => LET navMarkers == GetAllNavigableMarkers
       IN  /\ ValidNavIndex(NavIndexAfter(NextTarget(navMarkers, currentNavIndex)),
                            navMarkers)
           /\ ValidNavIndex(NavIndexAfter(PrevTarget(navMarkers, currentNavIndex)),
                            navMarkers)

\* ---------------------------------------------------------------- C37

\* C37 (as stated): whatever sequence of delete and confirm actions the user
\* performs in the editor, the deck still has at least one stored image.
C37_LastImageStays ==
    Cardinality(DOMAIN db) >= 1

\* ---------------------------------------------------------------- C38

\* The list with every groupId taken off: the markers themselves.
Unlinked(list) == [k \in DOMAIN list |-> [list[k] EXCEPT !.groupId = NoGroup]]

\* C38: when toggleLink links an ungrouped target that stands before the
\* anchor, the anchor is moved to the target's position: the new list holds
\* the same markers (none lost, none twice), the markers other than the anchor
\* keep their relative order, and linkMode.parentMarkerIndex becomes the
\* target's old index, where the anchor now stands.
C38_AnchorMoved ==
    [][\A img \in DOMAIN images : \A i \in DOMAIN images[img] :
          (/\ LinkActiveFor(img)
           /\ activeTool = "pen"
           /\ linkMode.parentMarkerIndex \in DOMAIN images[img]
           /\ i < linkMode.parentMarkerIndex
           /\ images[img][i].groupId = NoGroup
           /\ MarkerPointerDown(img, "pen", i))
          => LET old == Unlinked(images[img])
                 new == Unlinked(images'[img])
                 p == linkMode.parentMarkerIndex
             IN  /\ Len(new) = Len(old)
                 /\ new[i] = old[p]
                 /\ RemoveAt(new, i) = RemoveAt(old, p)
                 /\ linkMode'.active
                 /\ linkMode'.imageId = img
                 /\ linkMode'.parentMarkerIndex = i
                 /\ images'[img][i].groupId # NoGroup
                 /\ images'[img][i + 1].groupId = images'[img][i].groupId]_vars

\* C38 witness: the head of a group was the anchor, the ungrouped marker in
\* front of the group was linked, and the anchor now stands first with the
\* session pointing at it.
C38_Witness ==
    /\ lastEdit.op = "link"
    /\ linkMode.active
    /\ linkMode.imageId = lastEdit.img
    /\ linkMode.parentMarkerIndex = 1
    /\ Len(lastEdit.before) = 3
    /\ lastEdit.before[1].groupId = NoGroup
    /\ lastEdit.before[2].groupId # NoGroup
    /\ lastEdit.before[3].groupId = lastEdit.before[2].groupId
    /\ Unlinked(images[lastEdit.img])[1] = Unlinked(lastEdit.before)[2]
    /\ \A k \in DOMAIN images[lastEdit.img] :
          images[lastEdit.img][k].groupId = lastEdit.before[2].groupId

====
